---- MODULE Spec2Model ----
(***************************************************************************)
(* Flight-Planner: the planning core (generateFlightPlan), the elevation   *)
(* service (getElevations) and the App component's plan state (canonical   *)
(* plan, filtered view, terrain merge, React effects).                     *)
(*                                                                         *)
(* Units.  Lengths and altitudes are integers in millimetres, so that      *)
(* toFixed(2) (centimetres) is a real rounding.  Coordinates are planar    *)
(* integers in 1e-7 degree, 90 of them to the metre, so that toFixed(6)    *)
(* is a real rounding.  Angles are whole degrees.  Camera sensor sizes are *)
(* in 1/100 mm.                                                            *)
(***************************************************************************)
EXTENDS Integers, Sequences, FiniteSets, TLC

\* null, and a value that is not null: x is null, or <<v>> for the value v.
NULL == <<>>

Some(v) == <<v>>

BATCH_SIZE == 50

(***************************************************************************)
(* Sequence and number helpers (JavaScript array semantics).               *)
(***************************************************************************)
Min(a, b) == IF a <= b THEN a ELSE b

Max(a, b) == IF a >= b THEN a ELSE b

Abs(a) == IF a < 0 THEN -a ELSE a

\* Array.prototype.slice(start, end): negative indexes count from the end,
\* both are clamped to [0, length]; the result is empty when start >= end.
Slice(s, start, end) ==
    LET n  == Len(s)
        lo == IF start < 0 THEN Max(n + start, 0) ELSE Min(start, n)
        hi == IF end < 0 THEN Max(n + end, 0) ELSE Min(end, n)
    IN  IF lo >= hi THEN <<>> ELSE [k \in 1..(hi - lo) |-> s[lo + k]]

\* Array.prototype.flat() on an array of arrays.
RECURSIVE Flat(_)
Flat(ss) == IF ss = <<>> THEN <<>> ELSE Head(ss) \o Flat(Tail(ss))

\* Array.prototype.reverse().
Reverse(s) == [k \in 1..Len(s) |-> s[Len(s) + 1 - k]]

\* Number(x.toFixed(2)) on millimetres: the nearest centimetre, halves away
\* from zero.
ToFixed2(x) ==
    IF x >= 0 THEN ((x + 5) \div 10) * 10 ELSE -(((-x + 5) \div 10) * 10)

\* Number(x.toFixed(6)) on 1e-7 degree: the nearest 1e-6 degree.
ToFixed6(x) ==
    IF x >= 0 THEN ((x + 5) \div 10) * 10 ELSE -(((-x + 5) \div 10) * 10)

(***************************************************************************)
(* Planar model of the turf primitives generateFlightPlan calls.           *)
(***************************************************************************)
Pt(x, y) == [x |-> x, y |-> y]

\* turf.lengthToDegrees(d, 'meters'): millimetres to coordinate units.
LengthToDegrees(d) == (d * 9) \div 100

\* turf.distance(p, q, {units: 'meters'}) in millimetres, for two points on
\* one sweep row or one sweep column.
Distance(p, q) == ((Abs(q.x - p.x) + Abs(q.y - p.y)) * 100) \div 9

\* turf.along(line, d): the point d millimetres from the line's start, the
\* line's end when d exceeds its length.
Along(a, b, d) ==
    LET step == LengthToDegrees(d)
    IN  IF step >= Abs(b.x - a.x) THEN b
        ELSE Pt(IF b.x >= a.x THEN a.x + step ELSE a.x - step, a.y)

\* turf.transformRotate(p, angle, {pivot}): clockwise by a multiple of 90.
Rotate(p, angle, pivot) ==
    LET a  == angle % 360
        dx == p.x - pivot.x
        dy == p.y - pivot.y
    IN  CASE a = 0   -> p
          [] a = 90  -> Pt(pivot.x + dy, pivot.y - dx)
          [] a = 180 -> Pt(pivot.x - dx, pivot.y - dy)
          [] OTHER   -> Pt(pivot.x - dy, pivot.y + dx)

\* The vertices of every ring of a geometry (geometry.coordinates).
Vertices(geometry) ==
    UNION {{geometry.rings[i][k] : k \in 1..Len(geometry.rings[i])}
             : i \in 1..Len(geometry.rings)}

SetMin(S) == CHOOSE m \in S : \A o \in S : m <= o

SetMax(S) == CHOOSE m \in S : \A o \in S : m >= o

\* turf.bbox: [minX, minY, maxX, maxY].
Bbox(geometry) ==
    LET xs == {v.x : v \in Vertices(geometry)}
        ys == {v.y : v \in Vertices(geometry)}
    IN  [minX |-> SetMin(xs), minY |-> SetMin(ys),
         maxX |-> SetMax(xs), maxY |-> SetMax(ys)]

\* turf.centerOfMass, taken at the middle of the extent.
CenterOfMass(geometry) ==
    LET b == Bbox(geometry)
    IN  Pt((b.minX + b.maxX) \div 2, (b.minY + b.maxY) \div 2)

RotateGeometry(geometry, angle, pivot) ==
    [geometry EXCEPT !.rings =
        [i \in 1..Len(geometry.rings) |->
            [k \in 1..Len(geometry.rings[i]) |->
                Rotate(geometry.rings[i][k], angle, pivot)]]]

\* The edges of a ring, in ring order (the ring closes on its first vertex).
RingEdges(r) == [k \in 1..Len(r) |-> <<r[k], r[(k % Len(r)) + 1]>>]

\* The edges of every ring, in order.
GeometryEdges(geometry) ==
    Flat([i \in 1..Len(geometry.rings) |-> RingEdges(geometry.rings[i])])

\* The crossing of the row y with the ring edge p-q, if any.  An edge lying
\* on the row has no single crossing.
EdgeCrossing(p, q, y, minX, maxX) ==
    IF p.y = q.y \/ y < Min(p.y, q.y) \/ y > Max(p.y, q.y) THEN <<>>
    ELSE LET x == p.x + ((y - p.y) * (q.x - p.x)) \div (q.y - p.y)
         IN  IF x >= minX /\ x <= maxX THEN <<Pt(x, y)>> ELSE <<>>

\* A sequence without its repeated elements, first occurrences kept.
RECURSIVE Distinct(_)
Distinct(s) ==
    IF s = <<>> THEN <<>>
    ELSE LET front == Distinct(Slice(s, 0, Len(s) - 1))
             last  == s[Len(s)]
         IN  IF \E k \in 1..Len(front) : front[k] = last
             THEN front ELSE Append(front, last)

\* turf.lineIntersect(row, region): the distinct crossings of the row with
\* the rings' edges, in edge order.
LineIntersect(y, minX, maxX, geometry) ==
    LET edges == GeometryEdges(geometry)
    IN  Distinct(Flat([k \in 1..Len(edges) |->
            EdgeCrossing(edges[k][1], edges[k][2], y, minX, maxX)]))

\* coords.sort((a, b) => a[0] - b[0]): insertion into increasing X, ties
\* kept in their order.
RECURSIVE SortByX(_)
SortByX(coords) ==
    IF coords = <<>> THEN <<>>
    ELSE LET front == SortByX(Slice(coords, 0, Len(coords) - 1))
             last  == coords[Len(coords)]
             n     == Cardinality({k \in 1..Len(front) : front[k].x <= last.x})
         IN  Slice(front, 0, n) \o <<last>> \o Slice(front, n, Len(front))

\* tan(k degrees) * 10000 for k = 1..45, and sin(k degrees) * 10000 for
\* k = 1..90.
Tan1e4 ==
    <<175, 349, 524, 699, 875, 1051, 1228, 1405, 1584, 1763, 1944, 2126,
      2309, 2493, 2679, 2867, 3057, 3249, 3443, 3640, 3839, 4040, 4245, 4452,
      4663, 4877, 5095, 5317, 5543, 5774, 6009, 6249, 6494, 6745, 7002, 7265,
      7536, 7813, 8098, 8391, 8693, 9004, 9325, 9657, 10000>>

Sin1e4 ==
    <<175, 349, 523, 698, 872, 1045, 1219, 1392, 1564, 1736, 1908, 2079,
      2250, 2419, 2588, 2756, 2924, 3090, 3256, 3420, 3584, 3746, 3907, 4067,
      4226, 4384, 4540, 4695, 4848, 5000, 5150, 5299, 5446, 5592, 5736, 5878,
      6018, 6157, 6293, 6428, 6561, 6691, 6820, 6947, 7071, 7193, 7314, 7431,
      7547, 7660, 7771, 7880, 7986, 8090, 8192, 8290, 8387, 8480, 8572, 8660,
      8746, 8829, 8910, 8988, 9063, 9135, 9205, 9272, 9336, 9397, 9455, 9511,
      9563, 9613, 9659, 9703, 9744, 9781, 9816, 9848, 9877, 9903, 9925, 9945,
      9962, 9976, 9986, 9994, 9998, 10000>>

\* atan(a / b) in whole degrees for a, b >= 0, not both 0.
AtanDeg(a, b) ==
    LET lo == Min(a, b)
        hi == Max(a, b)
        t  == Cardinality({k \in 1..45 : Tan1e4[k] * hi <= lo * 10000})
    IN  IF a <= b THEN t ELSE 90 - t

\* turf.bearing(p, q): degrees clockwise from north, in (-180, 180].
Bearing(p, q) ==
    LET dx == q.x - p.x
        dy == q.y - p.y
    IN  CASE dx = 0 /\ dy = 0 -> 0
          [] dx >= 0 /\ dy >= 0 /\ (dx # 0 \/ dy # 0) -> AtanDeg(dx, dy)
          [] dx >= 0 /\ dy < 0 -> 180 - AtanDeg(dx, -dy)
          [] dx < 0 /\ dy >= 0 -> -AtanDeg(-dx, dy)
          [] OTHER -> AtanDeg(-dx, -dy) - 180

\* sin and cos of a whole angle, times 10000.
SinDeg(h) ==
    LET a == h % 360
    IN  CASE a = 0 \/ a = 180 -> 0
          [] a > 0 /\ a <= 90 -> Sin1e4[a]
          [] a > 90 /\ a < 180 -> Sin1e4[180 - a]
          [] a > 180 /\ a <= 270 -> -Sin1e4[a - 180]
          [] OTHER -> -Sin1e4[360 - a]

CosDeg(h) == SinDeg(h + 90)

\* a * s / 10000, rounded toward zero.
Scale(a, s) ==
    IF s >= 0 THEN (a * s) \div 10000 ELSE -((a * (-s)) \div 10000)

\* turf.destination(p, d, heading, {units: 'meters'}).
Destination(p, d, heading) ==
    LET r == LengthToDegrees(d)
    IN  Pt(p.x + Scale(r, SinDeg(heading)), p.y + Scale(r, CosDeg(heading)))

(***************************************************************************)
(* generateFlightPlan (services/flightPlanner).                            *)
(***************************************************************************)
\* Ground sample distance, in 1/10 mm per pixel.
Gsd(flightParams, cameraParams) ==
    (flightParams.altitude * cameraParams.sensorWidth * 10)
        \div (cameraParams.focalLength * cameraParams.imageWidth)

\* Across-track and along-track footprint sizes, in millimetres.
FootprintWidth(flightParams, cameraParams) ==
    (Gsd(flightParams, cameraParams) * cameraParams.imageWidth) \div 10

FootprintHeight(flightParams, cameraParams) ==
    (Gsd(flightParams, cameraParams) * cameraParams.imageHeight) \div 10

\* Distances between photos (along-track) and lines (across-track).
\* (DistanceAlongTrackOfOverlap: the distance with the overlap taken for the
\* advance.)
DistanceAlongTrackOfOverlap(flightParams, cameraParams) ==
    (FootprintHeight(flightParams, cameraParams)
        * flightParams.frontOverlap) \div 100

DistanceAlongTrack(flightParams, cameraParams) ==
    (FootprintHeight(flightParams, cameraParams)
        * (100 - flightParams.frontOverlap)) \div 100

DistanceSideTrack(flightParams, cameraParams) ==
    (FootprintWidth(flightParams, cameraParams)
        * (100 - flightParams.sideOverlap)) \div 100

\* The guard that throws "Overlap values must be less than 100%.".
OverlapRejected(flightParams, cameraParams) ==
    \/ DistanceSideTrack(flightParams, cameraParams) <= 0
    \/ DistanceAlongTrack(flightParams, cameraParams) <= 0

\* The sweep rows: currentY from minY while currentY <= maxY.
RECURSIVE SweepRows(_, _, _)
SweepRows(currentY, maxY, step) ==
    IF currentY > maxY THEN <<>>
    ELSE <<currentY>> \o SweepRows(currentY + step, maxY, step)

\* for (i = 0; i < coords.length; i += 2) if (coords[i+1]) push([i, i+1]).
\* (PairUpEveryStep: the loop advancing by one.)
PairUpEveryStep(coords) ==
    [k \in 1..(Len(coords) - 1) |-> [a |-> coords[k], b |-> coords[k + 1]]]

RECURSIVE PairUp(_)
PairUp(coords) ==
    IF Len(coords) < 2 THEN <<>>
    ELSE <<[a |-> coords[1], b |-> coords[2]]>>
            \o PairUp(Slice(coords, 2, Len(coords)))

\* The segments one sweep row contributes to flightLines.
\* (RowSegmentsUnsorted: the same without coords.sort.)
RowSegmentsUnsorted(intersection) ==
    IF Len(intersection) > 0 /\ Len(intersection) > 1
    THEN PairUp(intersection) ELSE <<>>

RowSegments(intersection) ==
    IF Len(intersection) > 0 /\ Len(intersection) > 1
    THEN PairUp(SortByX(intersection)) ELSE <<>>

\* Step 5: flightLines, the segments of every sweep row of the rotated
\* region, in row order.
SweepSegments(rotated, distanceSideTrack) ==
    LET box  == Bbox(rotated)
        rows == SweepRows(box.minY, box.maxY, LengthToDegrees(distanceSideTrack))
    IN  Flat([k \in 1..Len(rows) |->
            RowSegments(LineIntersect(rows[k], box.minX, box.maxX, rotated))])

\* for (d = 0; d <= lineLength; d += distanceAlongTrack) along(line, d).
RECURSIVE SteppedPoints(_, _, _, _)
SteppedPoints(line, d, lineLength, distanceAlongTrack) ==
    IF d > lineLength THEN <<>>
    ELSE <<Along(line.a, line.b, d)>>
            \o SteppedPoints(line, d + distanceAlongTrack, lineLength,
                             distanceAlongTrack)

\* Step 6 for one segment: the stepped points, the segment's end point when
\* it lies more than a metre past the last of them, reversed on odd indexes
\* (index counts from 0).
WaypointsOnLine(line, index, distanceAlongTrack) ==
    LET lineLength == Distance(line.a, line.b)
        stepped    == SteppedPoints(line, 0, lineLength, distanceAlongTrack)
        withEnd    == IF lineLength > 0
                         /\ Distance(stepped[Len(stepped)], line.b) > 1000
                      THEN Append(stepped, line.b) ELSE stepped
    IN  IF index % 2 # 0 THEN Reverse(withEnd) ELSE withEnd

\* One waypoint's footprint ring: tl, tr, br, bl, tl.
FootprintPoly(coords, heading, footprintWidth, footprintHeight) ==
    LET halfAlongTrackM  == footprintHeight \div 2
        halfAcrossTrackM == footprintWidth \div 2
        forwardCenter    == Destination(coords, halfAlongTrackM, heading)
        backwardCenter   == Destination(coords, halfAlongTrackM, heading - 180)
        tl == Destination(forwardCenter, halfAcrossTrackM, heading - 90)
        tr == Destination(forwardCenter, halfAcrossTrackM, heading + 90)
        br == Destination(backwardCenter, halfAcrossTrackM, heading + 90)
        bl == Destination(backwardCenter, halfAcrossTrackM, heading - 90)
    IN  <<tl, tr, br, bl, tl>>

\* finalWaypoints[i + 1] || finalWaypoints[i - 1] || wp (i counts from 1).
NextWp(finalWaypoints, i) ==
    IF i + 1 <= Len(finalWaypoints) THEN finalWaypoints[i + 1]
    ELSE IF i - 1 >= 1 THEN finalWaypoints[i - 1]
    ELSE finalWaypoints[i]

FormatWaypoint(finalWaypoints, i, flightParams) ==
    LET heading == Bearing(finalWaypoints[i], NextWp(finalWaypoints, i))
    IN  [lat         |-> finalWaypoints[i].y,
         lng         |-> finalWaypoints[i].x,
         altitude    |-> flightParams.altitude,
         heading     |-> IF heading < 0 THEN heading + 360 ELSE heading,
         gimbalPitch |-> flightParams.gimbalPitch,
         speed       |-> flightParams.speed]

\* The re-structuring of the formatted waypoints into lines of the lengths
\* of waypointsByLine.
\* (RestructureFromStart: every line sliced from the start of the sequence.)
RestructureFromStart(formatted, lengths, currentIndex) ==
    [k \in 1..Len(lengths) |-> Slice(formatted, 0, lengths[k])]

RECURSIVE Restructure(_, _, _)
Restructure(formatted, lengths, currentIndex) ==
    IF lengths = <<>> THEN <<>>
    ELSE <<Slice(formatted, currentIndex, currentIndex + Head(lengths))>>
            \o Restructure(formatted, Tail(lengths), currentIndex + Head(lengths))

NoWaypointsMessage ==
    "Could not generate waypoints. The survey area may be too small for the given parameters."

\* The guard that throws it.
\* (NoWaypointsNever: the guard left out.)
NoWaypointsNever(finalWaypoints) == FALSE

NoWaypoints(finalWaypoints) == Len(finalWaypoints) = 0

\* generateFlightPlan: [ok |-> FALSE, error] when it throws, the waypoint
\* lines and the footprints otherwise.
generateFlightPlan(geometry, flightParams, cameraParams) ==
    LET footprintWidth     == FootprintWidth(flightParams, cameraParams)
        footprintHeight    == FootprintHeight(flightParams, cameraParams)
        distanceAlongTrack == DistanceAlongTrack(flightParams, cameraParams)
        distanceSideTrack  == DistanceSideTrack(flightParams, cameraParams)
        bearing            == flightParams.flightDirection
        center             == CenterOfMass(geometry)
        rotatedFeature     == RotateGeometry(geometry, 360 - bearing, center)
        flightLines        == SweepSegments(rotatedFeature, distanceSideTrack)
        waypointsByLine    ==
            [k \in 1..Len(flightLines) |->
                WaypointsOnLine(flightLines[k], k - 1, distanceAlongTrack)]
        allWaypoints       == Flat(waypointsByLine)
        finalWaypoints     ==
            [k \in 1..Len(allWaypoints) |-> Rotate(allWaypoints[k], bearing, center)]
        formatted          ==
            [i \in 1..Len(finalWaypoints) |->
                FormatWaypoint(finalWaypoints, i, flightParams)]
        footprintPolygons  ==
            [i \in 1..Len(finalWaypoints) |->
                FootprintPoly(finalWaypoints[i],
                              Bearing(finalWaypoints[i], NextWp(finalWaypoints, i)),
                              footprintWidth, footprintHeight)]
    IN  IF OverlapRejected(flightParams, cameraParams)
        THEN [ok |-> FALSE, error |-> "Overlap values must be less than 100%."]
        ELSE IF NoWaypoints(finalWaypoints)
        THEN [ok |-> FALSE, error |-> NoWaypointsMessage]
        ELSE [ok |-> TRUE,
              waypoints  |-> Restructure(formatted,
                                [k \in 1..Len(waypointsByLine) |->
                                    Len(waypointsByLine[k])], 0),
              footprints |-> footprintPolygons]

(***************************************************************************)
(* getElevations (services/elevationService).                              *)
(***************************************************************************)
\* The external elevation service: the elevation in millimetres, or null
\* over water, at the coordinates a request names.
Terrains == {"plain", "hills", "coast"}

ServiceElevation(t, lat, lng) ==
    CASE t = "plain" -> Some(12340)
      [] t = "hills" -> Some(((lng \div 10) % 1000) - 500 + ((lat \div 10) % 7))
      [] OTHER -> IF (lng \div 10) % 3 = 0 THEN NULL
                  ELSE Some(5 + ((lng \div 10) % 50))

\* Array(n).fill(null).
NullArray(n) == [k \in 1..n |-> NULL]

\* waypoints.slice(i, i + BATCH_SIZE).
Batch(wps, i) == Slice(wps, i, i + BATCH_SIZE)

\* The latitudes and longitudes of the request URL: toFixed(6) of each.
RequestUrl(batch) ==
    [latitude  |-> [k \in 1..Len(batch) |-> ToFixed6(batch[k].lat)],
     longitude |-> [k \in 1..Len(batch) |-> ToFixed6(batch[k].lng)]]

\* What the service answers to a request: one entry per position, in order.
ElevationReply(t, url) ==
    [k \in 1..Len(url.latitude) |->
        ServiceElevation(t, url.latitude[k], url.longitude[k])]

\* How one request can end: answered in full, fetch rejecting, a non-OK
\* status, a body without the elevation array, an array one entry short or
\* one entry long.
Outcomes == {"ok", "reject", "status", "missing", "length", "longer"}

ResponseOf(outcome, t, url) ==
    LET reply == ElevationReply(t, url)
    IN  CASE outcome = "reject"  -> [rejected |-> TRUE, ok |-> FALSE, elevation |-> NULL]
          [] outcome = "status"  -> [rejected |-> FALSE, ok |-> FALSE, elevation |-> NULL]
          [] outcome = "missing" -> [rejected |-> FALSE, ok |-> TRUE, elevation |-> NULL]
          [] outcome = "length"  ->
                [rejected |-> FALSE, ok |-> TRUE,
                 elevation |-> Some(Slice(reply, 0, Len(reply) - 1))]
          [] outcome = "longer"  ->
                [rejected |-> FALSE, ok |-> TRUE,
                 elevation |-> Some(Append(reply, Some(0)))]
          [] OTHER -> [rejected |-> FALSE, ok |-> TRUE, elevation |-> Some(reply)]

\* data.elevation.forEach((elevation, index) => allElevations[i + index] =
\* elevation): an index past the end grows the array.
\* (WriteBatchAtIndex: the write with index alone for the position.)
WriteBatchAtIndex(allElevations, i, elevation) ==
    [k \in 1..Max(Len(allElevations), Len(elevation)) |->
        IF k <= Len(elevation) THEN elevation[k]
        ELSE allElevations[k]]

WriteBatch(allElevations, i, elevation) ==
    [k \in 1..Max(Len(allElevations), i + Len(elevation)) |->
        IF k - 1 >= i /\ k - 1 < i + Len(elevation) THEN elevation[k - i]
        ELSE IF k <= Len(allElevations) THEN allElevations[k] ELSE NULL]

\* The body of the try block for the batch at i, once its response is in.
\* (StoreBatchAnyLength: the body without the comparison of the lengths.)
StoreBatchAnyLength(allElevations, i, batch, response) ==
    IF response.rejected THEN allElevations
    ELSE IF ~response.ok THEN allElevations
    ELSE IF response.elevation = NULL THEN allElevations
    ELSE WriteBatch(allElevations, i, response.elevation[1])

StoreBatch(allElevations, i, batch, response) ==
    IF response.rejected THEN allElevations
    ELSE IF ~response.ok THEN allElevations
    ELSE IF response.elevation = NULL \/ Len(response.elevation[1]) # Len(batch)
    THEN allElevations
    ELSE WriteBatch(allElevations, i, response.elevation[1])

\* The number of null entries of the result (failedCount).
FailedCount(allElevations) ==
    Cardinality({k \in 1..Len(allElevations) : allElevations[k] = NULL})

\* The loop head at index e.i: the next request is issued, or the loop is
\* over and getElevations returns allElevations.
ElevLoop(e) ==
    IF e.i < Len(e.waypoints)
    THEN [e EXCEPT !.pc = "awaiting",
                   !.inFlight = @ \cup {e.i},
                   !.requests = Append(@, [start |-> e.i,
                                           size  |-> Len(Batch(e.waypoints, e.i))])]
    ELSE [e EXCEPT !.pc = "returned",
                   !.result = e.allElevations,
                   !.warned = FailedCount(e.allElevations)]

ElevIdle ==
    [pc |-> "idle", waypoints |-> <<>>, allElevations |-> <<>>, i |-> 0,
     inFlight |-> {}, requests |-> <<>>, failed |-> {}, result |-> <<>>,
     warned |-> 0, rejected |-> FALSE]

\* getElevations(waypoints) up to its first await.
\* (getElevationsCallAtOnce: every batch requested before any answer.)
getElevationsCallAtOnce(wps) ==
    LET starts == {i \in 0..(Len(wps) - 1) : i % BATCH_SIZE = 0}
    IN  [ElevIdle EXCEPT
            !.pc = IF Len(wps) = 0 THEN "returned" ELSE "awaiting",
            !.waypoints = wps,
            !.allElevations = NullArray(Len(wps)),
            !.inFlight = starts,
            !.requests = [k \in 1..Cardinality(starts) |->
                            [start |-> (k - 1) * BATCH_SIZE,
                             size  |-> Len(Batch(wps, (k - 1) * BATCH_SIZE))]]]

getElevationsCall(wps) ==
    IF Len(wps) = 0
    THEN [ElevIdle EXCEPT !.pc = "returned"]
    ELSE ElevLoop([ElevIdle EXCEPT !.waypoints = wps,
                                   !.allElevations = NullArray(Len(wps))])

\* getElevations from the response to the request at b to its next await:
\* the batch is stored or skipped, and the loop goes on at b + BATCH_SIZE.
\* (getElevationsResumeOrThrow: a rejected fetch is thrown on to the caller.)
getElevationsResumeOrThrow(e, b, outcome, t) ==
    LET batch    == Batch(e.waypoints, b)
        response == ResponseOf(outcome, t, RequestUrl(batch))
    IN  IF response.rejected
        THEN [e EXCEPT !.pc = "thrown", !.inFlight = @ \ {b},
                       !.failed = @ \cup {b}, !.rejected = TRUE]
        ELSE ElevLoop([e EXCEPT
                !.allElevations = StoreBatch(e.allElevations, b, batch, response),
                !.inFlight = @ \ {b},
                !.failed = IF outcome = "ok" THEN @ ELSE @ \cup {b},
                !.i = b + BATCH_SIZE])

getElevationsResume(e, b, outcome, t) ==
    LET batch    == Batch(e.waypoints, b)
        response == ResponseOf(outcome, t, RequestUrl(batch))
    IN  ElevLoop([e EXCEPT
            !.allElevations = StoreBatch(e.allElevations, b, batch, response),
            !.inFlight = @ \ {b},
            !.failed = IF outcome = "ok" THEN @ ELSE @ \cup {b},
            !.i = b + BATCH_SIZE])

(***************************************************************************)
(* App: pure parts of the effects and handlers.                            *)
(***************************************************************************)
\* The filter effect's contribution of one line to newFilteredWaypoints.
\* (FilterLineAlwaysCut: the contribution without the test for short lines.)
FilterLineAlwaysCut(line, fp) ==
    Slice(line, 0, fp.keepStart)
        \o Slice(line, Max(0, Len(line) - fp.keepEnd), Len(line))

FilterLine(line, fp) ==
    LET lineLength == Len(line)
    IN  IF lineLength <= fp.keepStart + fp.keepEnd THEN line
        ELSE Slice(line, 0, fp.keepStart)
                \o Slice(line, lineLength - fp.keepEnd, lineLength)

\* features[k] pushed if it exists (k counts from 0).
FeatureIfAny(features, k) ==
    IF k >= 0 /\ k < Len(features) THEN <<features[k + 1]>> ELSE <<>>

\* The filter effect's contribution of one line to newFilteredFootprints,
\* the line starting at flatWaypointIndex of the flattened sequence.
\* (FilterLineFootprintsInLine: the footprints indexed within the line.)
FilterLineFootprintsInLine(line, flatWaypointIndex, features, fp) ==
    LET lineLength == Len(line)
    IN  IF lineLength <= fp.keepStart + fp.keepEnd
        THEN Flat([i \in 1..lineLength |-> FeatureIfAny(features, i - 1)])
        ELSE Flat([i \in 1..fp.keepStart |-> FeatureIfAny(features, i - 1)])
             \o Flat([i \in 1..fp.keepEnd |->
                FeatureIfAny(features, lineLength - fp.keepEnd + i - 1)])

FilterLineFootprints(line, flatWaypointIndex, features, fp) ==
    LET lineLength == Len(line)
    IN  IF lineLength <= fp.keepStart + fp.keepEnd
        THEN Flat([i \in 1..lineLength |->
                FeatureIfAny(features, flatWaypointIndex + i - 1)])
        ELSE Flat([i \in 1..fp.keepStart |->
                FeatureIfAny(features, flatWaypointIndex + i - 1)])
             \o Flat([i \in 1..fp.keepEnd |->
                FeatureIfAny(features,
                    flatWaypointIndex + lineLength - fp.keepEnd + i - 1)])

RECURSIVE FilterFootprints(_, _, _, _)
FilterFootprints(lines, flatWaypointIndex, features, fp) ==
    IF lines = <<>> THEN <<>>
    ELSE FilterLineFootprints(Head(lines), flatWaypointIndex, features, fp)
            \o FilterFootprints(Tail(lines), flatWaypointIndex + Len(Head(lines)),
                                features, fp)

\* What the filter effect passes to setWaypoints and setFootprints.
FilterView(fp, lines, features) ==
    IF Len(lines) = 0 \/ features = NULL
    THEN [waypoints |-> <<>>, footprints |-> NULL]
    ELSE IF ~fp.enabled
    THEN [waypoints |-> Flat(lines), footprints |-> features]
    ELSE [waypoints  |-> Flat([k \in 1..Len(lines) |-> FilterLine(lines[k], fp)]),
          footprints |-> Some(FilterFootprints(lines, 0, features[1], fp))]

\* Strings the statistics effect builds are sequences of characters.
DigitChar(d) == <<"0", "1", "2", "3", "4", "5", "6", "7", "8", "9">>[d + 1]

\* Number.prototype.toString() of an integer n >= 0.
RECURSIVE Digits(_)
Digits(n) ==
    IF n < 10 THEN <<DigitChar(n)>>
    ELSE Append(Digits(n \div 10), DigitChar(n % 10))

\* String.prototype.padStart(targetLength, padString), padString one
\* character.
PadStart(str, targetLength, padString) ==
    IF Len(str) >= targetLength THEN str
    ELSE [k \in 1..(targetLength - Len(str)) |-> padString] \o str

\* (n / d).toFixed(2) for n >= 0 and d a multiple of 200.
ToFixed2String(n, d) ==
    LET unit       == d \div 100
        hundredths == (n + (unit \div 2)) \div unit
    IN  Digits(hundredths \div 100) \o <<".">>
            \o PadStart(Digits(hundredths % 100), 2, "0")

\* The integer square root, by bisection.
RECURSIVE SqrtBetween(_, _, _)
SqrtBetween(n, lo, hi) ==
    IF lo >= hi THEN lo
    ELSE LET mid == (lo + hi + 1) \div 2
         IN  IF mid * mid <= n THEN SqrtBetween(n, mid, hi)
             ELSE SqrtBetween(n, lo, mid - 1)

\* turf.distance(from, to, {units: 'meters'}) between two waypoints, in
\* millimetres; the squares are taken in units coarse enough for 32 bits.
WaypointDistance(from, to) ==
    LET dx == Abs(to.lng - from.lng)
        dy == Abs(to.lat - from.lat)
        k  == (Max(dx, dy) \div 30000) + 1
        h  == IF dx = 0 \/ dy = 0 THEN dx + dy
              ELSE k * SqrtBetween((dx \div k) * (dx \div k)
                                      + (dy \div k) * (dy \div k), 0, 46340)
    IN  (h * 100) \div 9

\* The statistics effect's loop over the active waypoints from index i on.
RECURSIVE TotalDistanceFrom(_, _)
TotalDistanceFrom(wps, i) ==
    IF i >= Len(wps) THEN 0
    ELSE WaypointDistance(wps[i], wps[i + 1]) + TotalDistanceFrom(wps, i + 1)

TotalDistance(wps) == IF Len(wps) > 1 THEN TotalDistanceFrom(wps, 1) ELSE 0

\* The flight time string for a distance in millimetres and a speed in
\* metres per second: flightTimeSeconds = totalDistance / speed, the floor of
\* its sixtieth and the floor of its remainder by 60, each padStart(2, '0').
\* (FlightTimeUnpadded: the two numbers as they are.)
FlightTimeUnpadded(totalDistance, speed) ==
    LET minutes == totalDistance \div (60 * 1000 * speed)
        seconds == (totalDistance % (60 * 1000 * speed)) \div (1000 * speed)
    IN  Digits(minutes) \o <<":">> \o Digits(seconds)

FlightTime(totalDistance, speed) ==
    LET minutes == totalDistance \div (60 * 1000 * speed)
        seconds == (totalDistance % (60 * 1000 * speed)) \div (1000 * speed)
    IN  PadStart(Digits(minutes), 2, "0") \o <<":">>
            \o PadStart(Digits(seconds), 2, "0")

\* What the statistics effect passes to setStats.
\* (StatsOfUnguarded: the effect without its early return.)
StatsOfUnguarded(wps, lines, speed, camera) ==
    LET totalDistance == TotalDistance(wps)
        photoCount    == Len(wps)
        totalPixels   == photoCount * camera.imageWidth * camera.imageHeight
    IN  Some([totalWaypoints |-> Len(wps),
              flightLines    |-> Len(lines),
              flightTime     |-> FlightTime(totalDistance, speed),
              totalDistance  |-> ToFixed2String(totalDistance, 1000000),
              photoCount     |-> photoCount,
              dataVolume     |-> ToFixed2String(totalPixels, 1000000000)])

\* (StatsOfCanonical: the counts taken from the canonical lines.)
StatsOfCanonical(wps, lines, speed, camera) ==
    LET totalDistance == TotalDistance(wps)
        photoCount    == Len(Flat(lines))
        totalPixels   == Len(wps) * camera.imageWidth * camera.imageHeight
    IN  IF Len(wps) = 0 \/ Len(lines) = 0 THEN NULL
        ELSE Some([totalWaypoints |-> Len(Flat(lines)),
                   flightLines    |-> Len(lines),
                   flightTime     |-> FlightTime(totalDistance, speed),
                   totalDistance  |-> ToFixed2String(totalDistance, 1000000),
                   photoCount     |-> photoCount,
                   dataVolume     |-> ToFixed2String(totalPixels, 1000000000)])

StatsOf(wps, lines, speed, camera) ==
    LET totalDistance == TotalDistance(wps)
        photoCount    == Len(wps)
        totalPixels   == photoCount * camera.imageWidth * camera.imageHeight
    IN  IF Len(wps) = 0 \/ Len(lines) = 0 THEN NULL
        ELSE Some([totalWaypoints |-> Len(wps),
                   flightLines    |-> Len(lines),
                   flightTime     |-> FlightTime(totalDistance, speed),
                   totalDistance  |-> ToFixed2String(totalDistance, 1000000),
                   photoCount     |-> photoCount,
                   dataVolume     |-> ToFixed2String(totalPixels, 1000000000)])

\* handleFetchTerrainData's map over one line; waypointIndex is the number
\* of waypoints mapped before it.
\* (MergeLineFromZero: the map with the index counted within the line.)
MergeLineFromZero(line, elevations, waypointIndex, altitude) ==
    [k \in 1..Len(line) |->
        LET elevation == elevations[k]
        IN  IF elevation = NULL THEN line[k]
            ELSE [line[k] EXCEPT !.altitude = ToFixed2(elevation[1] + altitude)]]

\* (MergeLineCumulative: the map adding the elevation to the waypoint's own
\* altitude.)
MergeLineCumulative(line, elevations, waypointIndex, altitude) ==
    [k \in 1..Len(line) |->
        LET elevation == elevations[waypointIndex + k]
        IN  IF elevation = NULL THEN line[k]
            ELSE [line[k] EXCEPT
                     !.altitude = ToFixed2(elevation[1] + line[k].altitude)]]

\* (MergeLineRebuilt: the map building the corrected waypoint anew from its
\* position instead of spreading wp.)
MergeLineRebuilt(line, elevations, waypointIndex, altitude) ==
    [k \in 1..Len(line) |->
        LET elevation == elevations[waypointIndex + k]
        IN  IF elevation = NULL THEN line[k]
            ELSE [line[k] EXCEPT !.altitude = ToFixed2(elevation[1] + altitude),
                                 !.heading = 0, !.gimbalPitch = 0,
                                 !.speed = 0]]

MergeLine(line, elevations, waypointIndex, altitude) ==
    [k \in 1..Len(line) |->
        LET elevation == elevations[waypointIndex + k]
        IN  IF elevation = NULL THEN line[k]
            ELSE [line[k] EXCEPT !.altitude = ToFixed2(elevation[1] + altitude)]]

RECURSIVE MergeLines(_, _, _, _)
MergeLines(lines, elevations, waypointIndex, altitude) ==
    IF lines = <<>> THEN <<>>
    ELSE <<MergeLine(Head(lines), elevations, waypointIndex, altitude)>>
            \o MergeLines(Tail(lines), elevations,
                          waypointIndex + Len(Head(lines)), altitude)

\* newOriginalWaypoints of handleFetchTerrainData.
MergeElevations(lines, elevations, altitude) ==
    MergeLines(lines, elevations, 0, altitude)

\* turf.union of the polygon features (the regions drawn here are disjoint:
\* the union is the multi-polygon of their rings).
Union(polygons) ==
    [type  |-> "MultiPolygon",
     rings |-> Flat([k \in 1..Len(polygons) |-> polygons[k].rings])]

\* surveyArea.features.filter(Polygon or MultiPolygon).
PolygonFeatures(features) ==
    LET keep == {k \in 1..Len(features) :
                    features[k].type \in {"Polygon", "MultiPolygon"}}
    IN  Flat([k \in 1..Len(features) |->
            IF k \in keep THEN <<features[k]>> ELSE <<>>])

\* turf.union(...polygons), every polygon feature spread into the call.  The
\* sources do not fix the release of turf: up to release 5 union takes any
\* number of features and unions them all; in release 6 it is
\* union(poly1, poly2, options) and unions the first two.
UnionSpread(polygons) ==
    {Union(polygons), Union(SubSeq(polygons, 1, 2))}

\* The try block of handleGeneratePlan's deferred computation: the plans it
\* can come to, or the error it throws.
PlansOf(area, fp, cam) ==
    LET polygons == PolygonFeatures(area)
    IN  IF Len(polygons) = 0
        THEN {[ok |-> FALSE, error |-> "Survey area contains no valid polygon features."]}
        ELSE {generateFlightPlan(combinedGeometry, fp, cam) :
                combinedGeometry \in IF Len(polygons) > 1
                                     THEN UnionSpread(polygons)
                                     ELSE {polygons[1]}}

(***************************************************************************)
(* Inputs and bounds.                                                      *)
(***************************************************************************)
\* The camera presets of constants.ts.
DJI_MINI_4_PRO_CAMERA ==
    [sensorWidth |-> 983, sensorHeight |-> 737, focalLength |-> 672,
     imageWidth |-> 4000, imageHeight |-> 3000]

DJI_MAVIC_3_CAMERA ==
    [sensorWidth |-> 1730, sensorHeight |-> 1300, focalLength |-> 1229,
     imageWidth |-> 5280, imageHeight |-> 3956]

\* The initial flightParams and filterParams of App.
DefaultFlightParams ==
    [altitude |-> 100000, frontOverlap |-> 80, sideOverlap |-> 70,
     speed |-> 10, gimbalPitch |-> -90, flightDirection |-> 0,
     altitudeMode |-> "relative"]

DefaultFilterParams == [enabled |-> FALSE, keepStart |-> 2, keepEnd |-> 2]

\* A drawn polygon feature with the given ring.
Polygon(ring) == [type |-> "Polygon", rings |-> <<ring>>]

Rect(x0, y0, x1, y1) == Polygon(<<Pt(x0, y0), Pt(x1, y0), Pt(x1, y1), Pt(x0, y1)>>)

\* The survey areas drawn or imported in the App runs: a 60 m x 50 m field,
\* and two disjoint 30 m x 50 m fields side by side.
AreaStrip == <<Rect(0, 0, 5400, 4500)>>

AreaPair == <<Rect(0, 0, 2700, 4500), Rect(4500, 0, 7200, 4500)>>

Areas == {AreaStrip, AreaPair}

\* The values the parameter inputs are given in the App runs.
Altitudes == {100000, 60000}

FrontOverlaps == {80, 100}

\* The flight speeds entered, in metres per second.
Speeds == {10, 2}

\* CAMERA_PRESETS, by name.
CAMERA_PRESETS ==
    [name \in {"DJI Mini 4 Pro", "DJI Mavic 3"} |->
        IF name = "DJI Mini 4 Pro" THEN DJI_MINI_4_PRO_CAMERA
        ELSE DJI_MAVIC_3_CAMERA]

\* The largest keepStart / keepEnd entered.
MaxKeep == 3

KeepInputs == 0..MaxKeep

\* The longest line and the most lines of the plans the filter is run on,
\* and the most full batches of the waypoint lists getElevations is run on.
MaxLineLen == 4

MaxLines == 2

MaxBatches == 2

\* The most edits of the parameters and of the survey area in one App run.
MaxEdits == 4

(***************************************************************************)
(* State.                                                                  *)
(***************************************************************************)
VARIABLES
    flightParams,        \* useState<FlightParams>
    cameraParams,        \* useState<CameraParams>
    filterParams,        \* useState<FilterParams>
    surveyArea,          \* the features of the survey area, or null
    waypoints,           \* the active (possibly filtered) waypoints
    footprints,          \* the active footprints, or null
    originalWaypoints,   \* the canonical plan: lines of waypoints
    originalFootprints,  \* the canonical footprints, or null
    isLoading,
    isFetchingTerrain,
    error,
    stats,
    lastLog,             \* the newest entry of logMessages, or null
    pendingEffects,      \* the effects whose dependencies changed
    planTimer,           \* the closure of handleGeneratePlan's setTimeout
    fetchCall,           \* the closure of a running handleFetchTerrainData
    elev,                \* the activation of getElevations
    importCall,          \* the file of a running handleImportShapefile
    terrain,             \* the terrain the elevation service answers for
    planCall,            \* a direct call of generateFlightPlan
    edits                \* the number of edits made so far

vars ==
    <<flightParams, cameraParams, filterParams, surveyArea, waypoints,
      footprints, originalWaypoints, originalFootprints, isLoading,
      isFetchingTerrain, error, stats, lastLog, pendingEffects, planTimer,
      fetchCall, elev, importCall, terrain, planCall, edits>>

planVars == <<waypoints, footprints, originalWaypoints, originalFootprints>>

paramVars == <<flightParams, cameraParams, filterParams>>

asyncVars == <<planTimer, fetchCall, elev, importCall>>

\* The state after App's first render and effects.
Mounted ==
    /\ flightParams = DefaultFlightParams
    /\ cameraParams = DJI_MINI_4_PRO_CAMERA
    /\ filterParams = DefaultFilterParams
    /\ surveyArea = NULL
    /\ waypoints = <<>>
    /\ footprints = NULL
    /\ originalWaypoints = <<>>
    /\ originalFootprints = NULL
    /\ isLoading = FALSE
    /\ isFetchingTerrain = FALSE
    /\ error = NULL
    /\ stats = NULL
    /\ lastLog = NULL
    /\ pendingEffects = {}
    /\ edits = 0

\* No timer, no fetch and no call is under way.
Quiet ==
    /\ planTimer = NULL
    /\ importCall = NULL
    /\ fetchCall = NULL
    /\ elev = ElevIdle
    /\ planCall = NULL

Init == Mounted /\ Quiet /\ terrain = "coast"

\* addLogMessage(message, type): the entry put at the head of logMessages.
LogEntry(type, message) == [type |-> type, message |-> message]

\* The entry handleGeneratePlan logs for a generated plan.
GeneratedEntry(lines) ==
    LogEntry("success", "Flight plan generated with "
                            \o ToString(Len(Flat(lines))) \o " waypoints.")

hasPolygon == surveyArea # NULL /\ Len(surveyArea[1]) > 0

hasWaypoints == Len(waypoints) > 0

\* Event handlers and continuations run on a committed render whose effects
\* have been flushed.
Settled == pendingEffects = {}

(***************************************************************************)
(* App: the effects.                                                       *)
(***************************************************************************)
\* (RunEffectsCutting: a flush whose filter effect cuts the canonical lines
\* themselves.)
RunEffectsCutting ==
    /\ pendingEffects # {}
    /\ stats' = IF "stats" \in pendingEffects
                THEN StatsOf(waypoints, originalWaypoints, flightParams.speed,
                             cameraParams)
                ELSE stats
    /\ IF "filter" \in pendingEffects
       THEN LET view == FilterView(filterParams, originalWaypoints,
                                   originalFootprints)
            IN  /\ waypoints' = view.waypoints
                /\ footprints' = view.footprints
                /\ originalWaypoints' =
                      IF filterParams.enabled
                      THEN [k \in 1..Len(originalWaypoints) |->
                              FilterLine(originalWaypoints[k], filterParams)]
                      ELSE originalWaypoints
                /\ pendingEffects' = {"stats"}
       ELSE /\ UNCHANGED <<waypoints, footprints, originalWaypoints>>
            /\ pendingEffects' = {}
    /\ UNCHANGED <<originalFootprints, paramVars, surveyArea, isLoading,
                   isFetchingTerrain, error, lastLog, asyncVars, terrain,
                   planCall, edits>>

\* One flush of the pending effects of a committed render, in the order of
\* their declaration: the statistics effect, then the filter effect.  The
\* filter effect's setWaypoints makes the statistics effect pending again.
RunEffects ==
    /\ pendingEffects # {}
    /\ stats' = IF "stats" \in pendingEffects
                THEN StatsOf(waypoints, originalWaypoints, flightParams.speed,
                             cameraParams)
                ELSE stats
    /\ IF "filter" \in pendingEffects
       THEN LET view == FilterView(filterParams, originalWaypoints,
                                   originalFootprints)
            IN  /\ waypoints' = view.waypoints
                /\ footprints' = view.footprints
                /\ pendingEffects' = {"stats"}
       ELSE /\ UNCHANGED <<waypoints, footprints>>
            /\ pendingEffects' = {}
    /\ UNCHANGED <<originalWaypoints, originalFootprints, paramVars,
                   surveyArea, isLoading, isFetchingTerrain, error, lastLog,
                   asyncVars, terrain, planCall, edits>>

(***************************************************************************)
(* App: the parameter inputs.                                              *)
(***************************************************************************)
\* ControlPanel.handleParamChange: setParams(prev => {...prev, [field]: value}).
SetFlightParam ==
    /\ Settled
    /\ edits < MaxEdits
    /\ edits' = edits + 1
    /\ \E field \in {"altitude", "frontOverlap", "speed", "altitudeMode"} :
       \E value \in CASE field = "altitude" -> Altitudes
                      [] field = "frontOverlap" -> FrontOverlaps
                      [] field = "speed" -> Speeds
                      [] OTHER -> {"relative", "agl"} :
          /\ flightParams[field] # value
          /\ flightParams' = [flightParams EXCEPT ![field] = value]
          /\ pendingEffects' = IF field = "speed" THEN {"stats"} ELSE {}
    /\ UNCHANGED <<cameraParams, filterParams, surveyArea, planVars,
                   isLoading, isFetchingTerrain, error, stats, lastLog,
                   asyncVars, terrain, planCall>>

\* ControlPanel.handlePresetChange on another preset of the list:
\* setCameraParams(CAMERA_PRESETS[presetName]).
SetCameraPreset ==
    /\ Settled
    /\ edits < MaxEdits
    /\ edits' = edits + 1
    /\ \E presetName \in DOMAIN CAMERA_PRESETS :
          /\ cameraParams # CAMERA_PRESETS[presetName]
          /\ cameraParams' = CAMERA_PRESETS[presetName]
    /\ pendingEffects' = {"stats"}
    /\ UNCHANGED <<flightParams, filterParams, surveyArea, planVars,
                   isLoading, isFetchingTerrain, error, stats, lastLog,
                   asyncVars, terrain, planCall>>

\* ControlPanel.handleFilterParamChange: the toggle, and the two inputs,
\* which are disabled while the filter is off.
SetFilterParam ==
    /\ Settled
    /\ edits < MaxEdits
    /\ edits' = edits + 1
    /\ \/ filterParams' = [filterParams EXCEPT !.enabled = ~filterParams.enabled]
       \/ /\ filterParams.enabled
          /\ \E field \in {"keepStart", "keepEnd"}, value \in KeepInputs :
                /\ filterParams[field] # value
                /\ filterParams' = [filterParams EXCEPT ![field] = value]
    /\ pendingEffects' = {"filter"}
    /\ UNCHANGED <<flightParams, cameraParams, surveyArea, planVars,
                   isLoading, isFetchingTerrain, error, stats, lastLog,
                   asyncVars, terrain, planCall>>

(***************************************************************************)
(* App: the survey area and clearing.                                      *)
(***************************************************************************)
\* clearFlightPlan's five setters.
ClearFlightPlanState ==
    /\ waypoints' = <<>>
    /\ footprints' = NULL
    /\ originalWaypoints' = <<>>
    /\ originalFootprints' = NULL
    /\ stats' = NULL
    /\ pendingEffects' = {"filter", "stats"}

\* MapComponent.onCreated / onEdited / onDeleted: the survey area is set from
\* the map's layers (null when none is left) and clearFlightPlan is called.
EditSurveyArea ==
    /\ Settled
    /\ edits < MaxEdits
    /\ edits' = edits + 1
    /\ \E area \in {Some(a) : a \in Areas} \cup {NULL} :
          /\ area # surveyArea
          /\ surveyArea' = area
    /\ ClearFlightPlanState
    /\ UNCHANGED <<paramVars, isLoading, isFetchingTerrain, error, lastLog,
                   asyncVars, terrain, planCall>>

\* clearPlan ("Clear Everything"), enabled unless there is neither polygon
\* nor waypoint, or a plan is loading.
ClearPlan ==
    /\ Settled
    /\ ~((~hasPolygon /\ ~hasWaypoints) \/ isLoading)
    /\ ClearFlightPlanState
    /\ surveyArea' = NULL
    /\ error' = NULL
    /\ lastLog' = Some(LogEntry("info", "Cleared all data."))
    /\ UNCHANGED <<paramVars, isLoading, isFetchingTerrain, asyncVars,
                   terrain, planCall, edits>>

(***************************************************************************)
(* App: handleGeneratePlan.                                                *)
(***************************************************************************)
\* The click: the button is disabled without a polygon or while loading.
\* The deferred computation closes over this render's surveyArea,
\* flightParams and cameraParams; setTimeout puts it behind the timers
\* already pending.
\* (GenerateClickWhileLoading: the button enabled while loading.)
GenerateClickWhileLoading ==
    /\ Settled
    /\ hasPolygon
    /\ error' = NULL
    /\ isLoading' = TRUE
    /\ planTimer' = Append(planTimer, [surveyArea |-> surveyArea[1],
                                       flightParams |-> flightParams,
                                       cameraParams |-> cameraParams])
    /\ UNCHANGED <<paramVars, surveyArea, planVars, isFetchingTerrain, stats,
                   lastLog, pendingEffects, fetchCall, elev, importCall,
                   terrain, planCall, edits>>

GenerateClick ==
    /\ Settled
    /\ hasPolygon /\ ~isLoading
    /\ error' = NULL
    /\ isLoading' = TRUE
    /\ planTimer' = Append(planTimer, [surveyArea |-> surveyArea[1],
                                       flightParams |-> flightParams,
                                       cameraParams |-> cameraParams])
    /\ UNCHANGED <<paramVars, surveyArea, planVars, isFetchingTerrain, stats,
                   lastLog, pendingEffects, fetchCall, elev, importCall,
                   terrain, planCall, edits>>

\* The setTimeout callback of the oldest pending timer: try, catch and
\* finally.
\* (GenerateTimeoutKeepingPlan: the catch block logging the error only.
\* GenerateTimeoutWithoutFinally: setIsLoading(false) at the end of the try
\* block only.)
GenerateTimeoutWithoutFinally ==
    /\ Settled
    /\ planTimer # NULL
    /\ \E plan \in PlansOf(Head(planTimer).surveyArea,
                            Head(planTimer).flightParams,
                            Head(planTimer).cameraParams) :
           IF plan.ok
           THEN /\ originalWaypoints' = plan.waypoints
                /\ originalFootprints' = Some(plan.footprints)
                /\ lastLog' = Some(GeneratedEntry(plan.waypoints))
                /\ isLoading' = FALSE
                /\ UNCHANGED <<waypoints, footprints>>
           ELSE /\ lastLog' = Some(LogEntry("error", plan.error))
                /\ originalWaypoints' = <<>>
                /\ originalFootprints' = NULL
                /\ waypoints' = <<>>
                /\ footprints' = NULL
                /\ UNCHANGED isLoading
    /\ pendingEffects' = {"filter", "stats"}
    /\ planTimer' = Tail(planTimer)
    /\ UNCHANGED <<paramVars, surveyArea, isFetchingTerrain, error, stats,
                   fetchCall, elev, importCall, terrain, planCall, edits>>

GenerateTimeoutKeepingPlan ==
    /\ Settled
    /\ planTimer # NULL
    /\ \E plan \in PlansOf(Head(planTimer).surveyArea,
                            Head(planTimer).flightParams,
                            Head(planTimer).cameraParams) :
           IF plan.ok
           THEN /\ originalWaypoints' = plan.waypoints
                /\ originalFootprints' = Some(plan.footprints)
                /\ lastLog' = Some(GeneratedEntry(plan.waypoints))
                /\ UNCHANGED <<waypoints, footprints>>
           ELSE /\ lastLog' = Some(LogEntry("error", plan.error))
                /\ UNCHANGED <<originalWaypoints, originalFootprints,
                               waypoints, footprints>>
    /\ pendingEffects' = {"filter", "stats"}
    /\ isLoading' = FALSE
    /\ planTimer' = Tail(planTimer)
    /\ UNCHANGED <<paramVars, surveyArea, isFetchingTerrain, error, stats,
                   fetchCall, elev, importCall, terrain, planCall, edits>>

GenerateTimeout ==
    /\ Settled
    /\ planTimer # NULL
    /\ \E plan \in PlansOf(Head(planTimer).surveyArea,
                            Head(planTimer).flightParams,
                            Head(planTimer).cameraParams) :
           IF plan.ok
           THEN /\ originalWaypoints' = plan.waypoints
                /\ originalFootprints' = Some(plan.footprints)
                /\ lastLog' = Some(GeneratedEntry(plan.waypoints))
                /\ UNCHANGED <<waypoints, footprints>>
           ELSE /\ lastLog' = Some(LogEntry("error", plan.error))
                /\ originalWaypoints' = <<>>
                /\ originalFootprints' = NULL
                /\ waypoints' = <<>>
                /\ footprints' = NULL
    /\ pendingEffects' = {"filter", "stats"}
    /\ isLoading' = FALSE
    /\ planTimer' = Tail(planTimer)
    /\ UNCHANGED <<paramVars, surveyArea, isFetchingTerrain, error, stats,
                   fetchCall, elev, importCall, terrain, planCall, edits>>

(***************************************************************************)
(* App: handleImportShapefile.                                             *)
(***************************************************************************)
\* The files chosen: a shapefile of one field east of the drawn ones, a
\* shapefile of a track, an archive without the .shp, .shx and .dbf files,
\* and a shapefile whose .prj names another coordinate system.
ImportFiles ==
    {[name |-> "field.zip", kind |-> "shapefile",
      features |-> <<Rect(9000, 0, 11700, 4500)>>],
     [name |-> "track.zip", kind |-> "shapefile",
      features |-> <<[type |-> "LineString",
                      rings |-> <<<<Pt(0, 0), Pt(5400, 4500)>>>>]>>],
     [name |-> "notes.zip", kind |-> "incomplete", features |-> <<>>],
     [name |-> "utm.zip", kind |-> "projected",
      features |-> <<Rect(9000, 0, 11700, 4500)>>]}

\* The file is chosen; the import button is disabled while loading.  The
\* handler runs to its first await.
ImportStart ==
    /\ Settled
    /\ ~isLoading
    /\ edits < MaxEdits
    /\ edits' = edits + 1
    /\ \E file \in ImportFiles :
          /\ importCall' = Some(file)
          /\ lastLog' = Some(LogEntry("info",
                  "Importing " \o file.name \o "..."))
    /\ error' = NULL
    /\ isLoading' = TRUE
    /\ UNCHANGED <<paramVars, surveyArea, planVars, isFetchingTerrain, stats,
                   pendingEffects, planTimer, fetchCall, elev, terrain,
                   planCall>>

\* The rest of handleImportShapefile once the file is read: the checks, the
\* polygons added to the survey area and clearFlightPlan, or the catch
\* block, and the finally block.
ImportSettle ==
    /\ Settled
    /\ importCall # NULL
    /\ LET file     == importCall[1]
           polygons == PolygonFeatures(file.features)
       IN  CASE file.kind = "incomplete" ->
                  /\ lastLog' = Some(LogEntry("error",
                        "Invalid shapefile .zip. It must contain at least .shp, .shx, and .dbf files."))
                  /\ UNCHANGED <<surveyArea, planVars, stats, pendingEffects>>
             [] file.kind = "projected" ->
                  /\ lastLog' = Some(LogEntry("error",
                        "Invalid Coordinate System. Please ensure the shapefile uses WGS84 (EPSG:4326)."))
                  /\ UNCHANGED <<surveyArea, planVars, stats, pendingEffects>>
             [] file.kind = "shapefile" /\ Len(polygons) = 0 ->
                  /\ lastLog' = Some(LogEntry("error",
                        "The imported shapefile contains no valid polygon features. Please ensure it contains polygons, not points or polylines."))
                  /\ UNCHANGED <<surveyArea, planVars, stats, pendingEffects>>
             [] OTHER ->
                  /\ surveyArea' =
                        Some((IF surveyArea = NULL THEN <<>> ELSE surveyArea[1])
                                \o polygons)
                  /\ lastLog' = Some(LogEntry("success",
                        "Successfully imported " \o ToString(Len(polygons))
                            \o " polygon(s)."))
                  /\ ClearFlightPlanState
    /\ isLoading' = FALSE
    /\ importCall' = NULL
    /\ UNCHANGED <<paramVars, isFetchingTerrain, error, planTimer, fetchCall,
                   elev, terrain, planCall, edits>>

(***************************************************************************)
(* App: handleFetchTerrainData.                                            *)
(***************************************************************************)
\* The click, to the first await of getElevations.  The button is shown in
\* AGL mode when there are active waypoints, and disabled while fetching.
\* The handler closes over this render's originalWaypoints and altitude.
FetchClick ==
    /\ Settled
    /\ flightParams.altitudeMode = "agl" /\ hasWaypoints /\ ~isFetchingTerrain
    /\ IF Len(Flat(originalWaypoints)) = 0
       THEN /\ error' = Some("Generate a flight plan before fetching terrain data.")
            /\ UNCHANGED <<isFetchingTerrain, lastLog, fetchCall, elev>>
       ELSE /\ isFetchingTerrain' = TRUE
            /\ error' = NULL
            /\ lastLog' = Some(LogEntry("info",
                    "Fetching terrain data for "
                        \o ToString(Len(Flat(originalWaypoints)))
                        \o " waypoints..."))
            /\ fetchCall' = Some([originalWaypoints |-> originalWaypoints,
                                  altitude |-> flightParams.altitude])
            /\ elev' = getElevationsCall(Flat(originalWaypoints))
    /\ UNCHANGED <<paramVars, surveyArea, planVars, isLoading, stats,
                   pendingEffects, planTimer, importCall, terrain, planCall,
                   edits>>

\* The rest of handleFetchTerrainData once getElevations has settled: the
\* merge into the lines the handler closed over, or the catch block, and the
\* finally block.
\* (FetchSettleUnseen: the merge without the effects being run again.)
FetchSettleUnseen(e) ==
    /\ IF e.rejected
       THEN /\ lastLog' = Some(LogEntry("error",
                    "An unknown error occurred while fetching terrain data."))
            /\ UNCHANGED <<originalWaypoints, pendingEffects>>
       ELSE /\ originalWaypoints' =
                    MergeElevations(fetchCall[1].originalWaypoints, e.result,
                                    fetchCall[1].altitude)
            /\ lastLog' = Some(LogEntry("success",
                    "Terrain data fetched and applied successfully."))
            /\ UNCHANGED pendingEffects
    /\ isFetchingTerrain' = FALSE
    /\ fetchCall' = NULL

FetchSettle(e) ==
    /\ IF e.rejected
       THEN /\ lastLog' = Some(LogEntry("error",
                    "An unknown error occurred while fetching terrain data."))
            /\ UNCHANGED <<originalWaypoints, pendingEffects>>
       ELSE /\ originalWaypoints' =
                    MergeElevations(fetchCall[1].originalWaypoints, e.result,
                                    fetchCall[1].altitude)
            /\ lastLog' = Some(LogEntry("success",
                    "Terrain data fetched and applied successfully."))
            /\ pendingEffects' = {"filter", "stats"}
    /\ isFetchingTerrain' = FALSE
    /\ fetchCall' = NULL

\* A response to the request in flight: getElevations goes on to its next
\* request, or returns, and then handleFetchTerrainData goes on at once.
FetchRespond ==
    /\ Settled
    /\ fetchCall # NULL
    /\ \E b \in elev.inFlight, outcome \in Outcomes :
          LET e == getElevationsResume(elev, b, outcome, terrain)
          IN  /\ elev' = e
              /\ IF e.pc = "returned" \/ e.rejected
                 THEN FetchSettle(e)
                 ELSE UNCHANGED <<originalWaypoints, lastLog, pendingEffects,
                                  isFetchingTerrain, fetchCall>>
    /\ UNCHANGED <<paramVars, surveyArea, waypoints, footprints,
                   originalFootprints, isLoading, error, stats, planTimer,
                   importCall, terrain, planCall, edits>>

Next ==
    \/ RunEffects
    \/ SetFlightParam
    \/ SetCameraPreset
    \/ SetFilterParam
    \/ EditSurveyArea
    \/ ClearPlan
    \/ GenerateClick
    \/ GenerateTimeout
    \/ ImportStart
    \/ ImportSettle
    \/ FetchClick
    \/ FetchRespond

Spec == Init /\ [][Next]_vars

(***************************************************************************)
(* generateFlightPlan called directly, over a range of regions and         *)
(* parameters.                                                             *)
(***************************************************************************)
\* A triangle whose apex lies just above the second sweep row of the default
\* parameters, a triangle standing on its apex and lower than one row step,
\* a field, and two fields side by side.
TriangleUp == Polygon(<<Pt(0, 0), Pt(5400, 0), Pt(2700, 3960)>>)

TriangleDown == Polygon(<<Pt(0, 900), Pt(1800, 900), Pt(900, 0)>>)

\* A field with a bay cut into its upper side.
FieldWithBay ==
    Polygon(<<Pt(0, 0), Pt(7200, 0), Pt(7200, 4500), Pt(4500, 4500),
              Pt(4500, 1800), Pt(2700, 1800), Pt(2700, 4500), Pt(0, 4500)>>)

\* A field with a notch cut into its upper side, the notch's tip on the second
\* sweep row of the default parameters.
FieldWithNotch ==
    Polygon(<<Pt(0, 0), Pt(5400, 0), Pt(5400, 6000), Pt(2700, 3942),
              Pt(0, 6000)>>)

PlanGeometries ==
    {TriangleUp, TriangleDown, FieldWithBay, FieldWithNotch, Union(AreaStrip),
     Union(AreaPair)}

PlanOverlaps == {0, 70, 80, 100, 120}

PlanDirections == {0, 90, 180, 270}

PlanCameras == {DJI_MINI_4_PRO_CAMERA, DJI_MAVIC_3_CAMERA}

PlanFlightParams ==
    {[DefaultFlightParams EXCEPT !.altitude = a, !.frontOverlap = f,
                                 !.sideOverlap = s, !.flightDirection = d] :
        a \in Altitudes, f \in PlanOverlaps, s \in PlanOverlaps \ {80},
        d \in PlanDirections}

InitPlan ==
    /\ Mounted
    /\ planTimer = NULL /\ fetchCall = NULL /\ elev = ElevIdle
    /\ importCall = NULL
    /\ terrain = "coast"
    /\ \E g \in PlanGeometries, fp \in PlanFlightParams, cam \in PlanCameras :
          planCall = Some([geometry |-> g, flightParams |-> fp,
                           cameraParams |-> cam, result |-> NULL])

\* The call returns or throws.
RunPlan ==
    /\ planCall # NULL
    /\ planCall[1].result = NULL
    /\ planCall' = Some([planCall[1] EXCEPT !.result =
            Some(generateFlightPlan(planCall[1].geometry,
                                    planCall[1].flightParams,
                                    planCall[1].cameraParams))])
    /\ UNCHANGED <<paramVars, surveyArea, planVars, isLoading,
                   isFetchingTerrain, error, stats, lastLog, pendingEffects,
                   asyncVars, terrain, edits>>

NextPlan == RunPlan

SpecPlan == InitPlan /\ [][NextPlan]_vars

OverlapError == [ok |-> FALSE, error |-> "Overlap values must be less than 100%."]

OverlapsInRange(fp) ==
    /\ 0 <= fp.frontOverlap /\ fp.frontOverlap < 100
    /\ 0 <= fp.sideOverlap /\ fp.sideOverlap < 100

\* C9: with both overlaps in [0, 100) the along-track and across-track
\* distances are positive and the call does not throw the overlap error;
\* with the front or the side overlap at 100 or more the call throws it.
C9_Distances ==
    planCall # NULL =>
        LET c == planCall[1]
        IN  /\ OverlapsInRange(c.flightParams) =>
                  /\ DistanceAlongTrack(c.flightParams, c.cameraParams) > 0
                  /\ DistanceSideTrack(c.flightParams, c.cameraParams) > 0
                  /\ c.result # NULL => c.result[1] # OverlapError
            /\ (c.flightParams.frontOverlap >= 100
                    \/ c.flightParams.sideOverlap >= 100) =>
                  (c.result # NULL => c.result[1] = OverlapError)

C9_Witness ==
    /\ planCall # NULL
    /\ planCall[1].result = Some(OverlapError)
    /\ planCall[1].flightParams.frontOverlap = 100
    /\ planCall[1].flightParams.sideOverlap = 70

\* The result of the call, when it returned a plan.
PlanReturned ==
    planCall # NULL /\ planCall[1].result # NULL /\ planCall[1].result[1].ok

\* ring is a closed ring of four distinct corners centred on the waypoint wp.
FootprintOf(ring, wp) ==
    /\ Len(ring) = 5
    /\ ring[5] = ring[1]
    /\ Cardinality({ring[k] : k \in 1..4}) = 4
    /\ ring[1].x + ring[3].x = 2 * wp.lng /\ ring[1].y + ring[3].y = 2 * wp.lat
    /\ ring[2].x + ring[4].x = 2 * wp.lng /\ ring[2].y + ring[4].y = 2 * wp.lat

\* C11: a returned plan has as many footprints as waypoints over all its
\* lines, footprint k is the ground rectangle around the k-th waypoint of
\* the lines taken one after another, and every footprint is a closed ring
\* of four distinct corners and the first corner again.
C11_FootprintPerWaypoint ==
    PlanReturned =>
        LET flat == Flat(planCall[1].result[1].waypoints)
            fps  == planCall[1].result[1].footprints
        IN  /\ Len(fps) = Len(flat)
            /\ \A k \in 1..Len(flat) : FootprintOf(fps[k], flat[k])

\* A returned plan of several lines.
C11_Witness ==
    /\ PlanReturned
    /\ Len(planCall[1].result[1].waypoints) >= 2
    /\ Len(planCall[1].result[1].footprints) >= 4
    /\ Len(planCall[1].result[1].waypoints[1]) >= 2

\* The first and the last waypoint of a line, and the squared planar distance
\* of two waypoints.
FirstOf(line) == line[1]

LastOf(line) == line[Len(line)]

Dist2(v, w) ==
    (v.lng - w.lng) * (v.lng - w.lng) + (v.lat - w.lat) * (v.lat - w.lat)

\* Line i + 1 of the lines starts at the end nearest to where line i stops.
ContinuesAt(lines, i) ==
    Dist2(LastOf(lines[i]), FirstOf(lines[i + 1]))
        <= Dist2(LastOf(lines[i]), LastOf(lines[i + 1]))

\* C12: in a returned plan every line after the first starts at the end of
\* its segment nearest to the last waypoint of the line before it, lines
\* of one sweep row of a concave or multi-part region included.
C12_Boustrophedon ==
    PlanReturned =>
        \A i \in 1..(Len(planCall[1].result[1].waypoints) - 1) :
            ContinuesAt(planCall[1].result[1].waypoints, i)

\* The point p of the sweep frame lies on a sweep row of the rotated region,
\* between the (2j+1)-th and the (2j+2)-th of the row's intersection points
\* sorted by X, for some j.
OnPairedSegment(p, rotated, distanceSideTrack) ==
    LET box  == Bbox(rotated)
        rows == SweepRows(box.minY, box.maxY, LengthToDegrees(distanceSideTrack))
    IN  \E r \in 1..Len(rows) :
           /\ rows[r] = p.y
           /\ LET xs == SortByX(LineIntersect(rows[r], box.minX, box.maxX, rotated))
              IN  \E j \in 0..((Len(xs) \div 2) - 1) :
                     xs[2 * j + 1].x <= p.x /\ p.x <= xs[2 * j + 2].x

\* C13: every waypoint of a returned plan, taken back into the sweep frame,
\* lies on a sweep row between an odd-numbered intersection point and the
\* next one in X order; none lies in a gap between two such pairs.
C13_GapSkipping ==
    PlanReturned =>
        LET c       == planCall[1]
            bearing == c.flightParams.flightDirection
            center  == CenterOfMass(c.geometry)
            rotated == RotateGeometry(c.geometry, 360 - bearing, center)
            flat    == Flat(c.result[1].waypoints)
        IN  \A k \in 1..Len(flat) :
               OnPairedSegment(
                   Rotate(Pt(flat[k].lng, flat[k].lat), 360 - bearing, center),
                   rotated,
                   DistanceSideTrack(c.flightParams, c.cameraParams))

\* A plan over the two fields with rows of two segments, waypoints on both
\* sides of the gap.
C13_Witness ==
    /\ PlanReturned
    /\ planCall[1].geometry = Union(AreaPair)
    /\ planCall[1].flightParams.flightDirection = 0
    /\ \E k \in 1..Len(planCall[1].result[1].waypoints) :
          FirstOf(planCall[1].result[1].waypoints[k]).lng <= 2700
    /\ \E k \in 1..Len(planCall[1].result[1].waypoints) :
          FirstOf(planCall[1].result[1].waypoints[k]).lng >= 4500
    /\ \A k \in 1..Len(planCall[1].result[1].waypoints) :
          \A i \in 1..Len(planCall[1].result[1].waypoints[k]) :
             ~(planCall[1].result[1].waypoints[k][i].lng > 2700
                 /\ planCall[1].result[1].waypoints[k][i].lng < 4500)

\* The intersection points of every sweep row of the call's rotated region,
\* as turf.lineIntersect returns them.
RowIntersections ==
    LET c       == planCall[1]
        rotated == RotateGeometry(c.geometry, 360 - c.flightParams.flightDirection,
                                  CenterOfMass(c.geometry))
        box     == Bbox(rotated)
        rows    == SweepRows(box.minY, box.maxY,
                       LengthToDegrees(DistanceSideTrack(c.flightParams,
                                                         c.cameraParams)))
    IN  [r \in 1..Len(rows) |->
            LineIntersect(rows[r], box.minX, box.maxX, rotated)]

\* The call got as far as the sweep: it returned, and not with the overlap
\* error thrown before the sweep.
Swept ==
    /\ planCall # NULL /\ planCall[1].result # NULL
    /\ planCall[1].result[1] # OverlapError

\* segs pairs the points of coords consecutively in X order: the j-th segment
\* starts at a point with exactly 2(j-1) of the other points before it in X
\* order and ends at a point with exactly 2(j-1)+1 before it.
PairedInXOrder(coords, segs) ==
    /\ Len(segs) = Len(coords) \div 2
    /\ \A j \in 1..Len(segs) :
          /\ segs[j].a.x <= segs[j].b.x
          /\ \E ia, ib \in 1..Len(coords) :
                /\ ia # ib
                /\ coords[ia] = segs[j].a /\ coords[ib] = segs[j].b
                /\ Cardinality({k \in 1..Len(coords) :
                       coords[k].x < segs[j].a.x}) <= 2 * (j - 1)
                /\ Cardinality({k \in 1..Len(coords) :
                       coords[k].x <= segs[j].a.x}) > 2 * (j - 1)
                /\ Cardinality({k \in 1..Len(coords) :
                       coords[k].x < segs[j].b.x}) <= 2 * (j - 1) + 1
                /\ Cardinality({k \in 1..Len(coords) :
                       coords[k].x <= segs[j].b.x}) > 2 * (j - 1) + 1
    /\ \A j \in 1..(Len(segs) - 1) : segs[j].b.x <= segs[j + 1].a.x
    /\ Len(coords) % 2 = 1 =>
          \E t \in 1..Len(coords) :
             \A j \in 1..Len(segs) :
                /\ coords[t].x >= segs[j].b.x
                /\ coords[t] # segs[j].a /\ coords[t] # segs[j].b

\* C23: on every sweep row of a call, the row's n intersection points are
\* paired consecutively in increasing X order into exactly floor(n/2)
\* segments; with odd n the point of largest X is left out, and a row of no
\* or one intersection point gives no segment.
C23_RowPairing ==
    Swept =>
        \A r \in 1..Len(RowIntersections) :
            LET coords == RowIntersections[r]
                segs   == RowSegments(coords)
            IN  /\ PairedInXOrder(coords, segs)
                /\ Len(coords) <= 1 => segs = <<>>

\* A call with a row of three intersection points: one segment, the third
\* point left out.
C23_Witness ==
    /\ Swept
    /\ \E r \in 1..Len(RowIntersections) :
          /\ Len(RowIntersections[r]) = 3
          /\ Len(RowSegments(RowIntersections[r])) = 1

\* The waypoints of a line in the sweep frame, from the segment's start.
SweepPoints(line, bearing, center) ==
    LET pts == [k \in 1..Len(line) |->
                  Rotate(Pt(line[k].lng, line[k].lat), 360 - bearing, center)]
    IN  IF pts[1].x > pts[Len(pts)].x THEN Reverse(pts) ELSE pts

\* The segment of the sweep row of p that p lies on: the pair of
\* intersection points around it.
SegmentOf(p, rotated) ==
    LET box == Bbox(rotated)
        xs  == SortByX(LineIntersect(p.y, box.minX, box.maxX, rotated))
    IN  CHOOSE seg \in {[a |-> xs[2 * j + 1], b |-> xs[2 * j + 2]] :
                            j \in 0..((Len(xs) \div 2) - 1)} :
            seg.a.x <= p.x /\ p.x <= seg.b.x

\* The waypoints pts on the segment seg are at 0, s, 2s, ... from its start
\* as far as its length, followed by one more, the end point, exactly when
\* the end point is more than a metre past the last of them.
SteppedAlong(pts, seg, s) ==
    LET len == Distance(seg.a, seg.b)
        n   == (len \div s) + 1
    IN  /\ Len(pts) >= n
        /\ \A k \in 0..(n - 1) :
              pts[k + 1] = Pt(seg.a.x + LengthToDegrees(k * s), seg.a.y)
        /\ Len(pts) = IF Distance(pts[n], seg.b) > 1000 THEN n + 1 ELSE n
        /\ Len(pts) = n + 1 => pts[n + 1] = seg.b

\* The lines of the returned plan in the sweep frame, with their segments.
LinePlacements(P(_, _)) ==
    LET c       == planCall[1]
        bearing == c.flightParams.flightDirection
        center  == CenterOfMass(c.geometry)
        rotated == RotateGeometry(c.geometry, 360 - bearing, center)
        lines   == c.result[1].waypoints
    IN  \A l \in 1..Len(lines) :
           LET pts == SweepPoints(lines[l], bearing, center)
           IN  P(pts, SegmentOf(pts[1], rotated))

\* C14: on every segment the waypoints are at 0, s, 2s, ... (s the
\* along-track distance) up to the segment's length, the end point is added
\* when it is more than a metre past the last of them, and in every case
\* the last waypoint of the segment is the segment's end point.
C14_Placement ==
    PlanReturned =>
        LET s == DistanceAlongTrack(planCall[1].flightParams,
                                    planCall[1].cameraParams)
            Placed(pts, seg) ==
                /\ SteppedAlong(pts, seg, s)
                /\ pts[Len(pts)] = seg.b
        IN  LinePlacements(Placed)

\* What holds of the placement: the stepped waypoints and the appended end
\* point, the last waypoint being within a metre of the end point.
C14_PlacementWithinMetre ==
    PlanReturned =>
        LET s == DistanceAlongTrack(planCall[1].flightParams,
                                    planCall[1].cameraParams)
            Placed(pts, seg) ==
                /\ SteppedAlong(pts, seg, s)
                /\ Distance(pts[Len(pts)], seg.b) <= 1000
        IN  LinePlacements(Placed)

\* The bearing from waypoint v to waypoint w, normalized to [0, 360).
HeadingFromTo(v, w) ==
    Bearing(Pt(v.lng, v.lat), Pt(w.lng, w.lat)) % 360

\* The flattened waypoints of the returned plan.
PlannedWaypoints == Flat(planCall[1].result[1].waypoints)

\* C15: every waypoint but the last is headed for the next waypoint of the
\* flattened sequence, the last waypoint keeps the direction of travel (the
\* reverse of the bearing toward the waypoint before it), and every heading
\* is in [0, 360).
C15_Heading ==
    PlanReturned =>
        LET flat == PlannedWaypoints
            n    == Len(flat)
        IN  /\ \A i \in 1..(n - 1) :
                  flat[i].heading = HeadingFromTo(flat[i], flat[i + 1])
            /\ n >= 2 =>
                  flat[n].heading =
                      (HeadingFromTo(flat[n], flat[n - 1]) + 180) % 360
            /\ \A i \in 1..n : flat[i].heading \in 0..359

\* What holds of the headings: the last waypoint is headed for the waypoint
\* before it.
C15_HeadingLastTurnedBack ==
    PlanReturned =>
        LET flat == PlannedWaypoints
            n    == Len(flat)
        IN  /\ \A i \in 1..(n - 1) :
                  flat[i].heading = HeadingFromTo(flat[i], flat[i + 1])
            /\ n >= 2 =>
                  flat[n].heading = HeadingFromTo(flat[n], flat[n - 1])
            /\ \A i \in 1..n : flat[i].heading \in 0..359

\* C10: a plan that generateFlightPlan returns has at least one line, and
\* each of its lines has at least one waypoint.
C10_NonEmptyPlan ==
    (planCall # NULL /\ planCall[1].result # NULL /\ planCall[1].result[1].ok) =>
        LET lines == planCall[1].result[1].waypoints
        IN  /\ Len(lines) >= 1
            /\ \A k \in 1..Len(lines) : Len(lines[k]) >= 1

\* A returned plan with a line of a single waypoint, and a region for which
\* the call throws instead of returning no waypoint.
C10_Witness ==
    /\ planCall # NULL /\ planCall[1].result # NULL
    /\ planCall[1].result[1].ok
    /\ \E k \in 1..Len(planCall[1].result[1].waypoints) :
          Len(planCall[1].result[1].waypoints[k]) = 1

C10_WitnessThrow ==
    /\ planCall # NULL
    /\ planCall[1].result = Some([ok |-> FALSE,
                                  error |-> NoWaypointsMessage])

(***************************************************************************)
(* getElevations called directly, over waypoint lists around the batch     *)
(* size.                                                                   *)
(***************************************************************************)
SampleWaypoint(k) ==
    [lat |-> 4503 + 13 * k, lng |-> 37 * k, altitude |-> 100000,
     heading |-> 90, gimbalPitch |-> -90, speed |-> 10]

SampleWaypoints(n) == [k \in 1..n |-> SampleWaypoint(k)]

ElevSizes ==
    {0, 1} \cup {b * BATCH_SIZE + d : b \in 1..MaxBatches, d \in {-1, 0, 1}}

InitElev ==
    /\ Mounted
    /\ planTimer = NULL /\ fetchCall = NULL /\ planCall = NULL
    /\ importCall = NULL
    /\ terrain \in Terrains
    /\ \E n \in ElevSizes : elev = getElevationsCall(SampleWaypoints(n))

\* A response to the request in flight of a direct call.
ElevRespond ==
    /\ fetchCall = NULL
    /\ \E b \in elev.inFlight, outcome \in Outcomes :
          elev' = getElevationsResume(elev, b, outcome, terrain)
    /\ UNCHANGED <<paramVars, surveyArea, planVars, isLoading,
                   isFetchingTerrain, error, stats, lastLog, pendingEffects,
                   planTimer, fetchCall, importCall, terrain, planCall,
                   edits>>

NextElev == ElevRespond

SpecElev == InitElev /\ [][NextElev]_vars

\* The batch a position (from 0) belongs to, by its start index.
BatchStartOf(k) == (k \div BATCH_SIZE) * BATCH_SIZE

\* The requests of the call that have been answered, by start index.
Answered(e) ==
    {e.requests[k].start : k \in 1..Len(e.requests)} \ e.inFlight

\* What the service holds for waypoint wp.
AnswerFor(t, wp) == ServiceElevation(t, ToFixed6(wp.lat), ToFixed6(wp.lng))

BatchCount(n) == (n + BATCH_SIZE - 1) \div BATCH_SIZE

\* C5: a batch whose request failed (rejection, non-OK status, no array, an
\* array of another length) has exactly its own positions left null; the
\* batches answered in full hold the service's answers whatever became of
\* the others; and the loop goes on to request every later batch.
C5_FailedBatch ==
    LET e == elev
        n == Len(e.waypoints)
    IN  /\ \A b \in e.failed :
              /\ b \in Answered(e)
              /\ \A k \in 0..(n - 1) :
                    BatchStartOf(k) = b => e.allElevations[k + 1] = NULL
        /\ \A b \in Answered(e) \ e.failed :
              \A k \in 0..(n - 1) :
                 BatchStartOf(k) = b =>
                    e.allElevations[k + 1] = AnswerFor(terrain, e.waypoints[k + 1])
        /\ (e.pc = "awaiting" /\ e.failed # {}) => e.inFlight # {}
        /\ e.pc = "returned" =>
              /\ Len(e.requests) = BatchCount(n)
              /\ Answered(e) = {BatchStartOf(k) : k \in 0..(n - 1)}
              /\ ~e.rejected

\* A failed middle batch between two batches answered in full.
C5_Witness ==
    /\ elev.pc = "returned"
    /\ Len(elev.waypoints) = 2 * BATCH_SIZE + 1
    /\ elev.failed = {BATCH_SIZE}
    /\ elev.result[1] # NULL
    /\ elev.result[BATCH_SIZE + 1] = NULL
    /\ elev.result[2 * BATCH_SIZE + 1] # NULL

\* C7: the array getElevations returns has one entry per waypoint; entry i
\* is the service's answer for waypoint i, or null when the batch of i
\* failed; so a batch's answer is written at the batch's own positions only.
C7_Positions ==
    LET e == elev
        n == Len(e.waypoints)
    IN  /\ Len(e.allElevations) = n
        /\ \A k \in 0..(n - 1) :
              e.allElevations[k + 1] =
                 IF BatchStartOf(k) \in Answered(e) \ e.failed
                 THEN AnswerFor(terrain, e.waypoints[k + 1])
                 ELSE NULL
        /\ e.pc = "returned" =>
              /\ e.result = e.allElevations
              /\ Len(e.result) = n

\* Three batches answered, with known and unknown elevations side by side.
C7_Witness ==
    /\ elev.pc = "returned"
    /\ Len(elev.result) = 2 * BATCH_SIZE + 1
    /\ elev.failed = {}
    /\ \E k \in 1..BATCH_SIZE : elev.result[k] = NULL
    /\ \E k \in 1..BATCH_SIZE : elev.result[k] # NULL
    /\ elev.result[2 * BATCH_SIZE + 1] # NULL

\* C8: the batches are requested one after another, at most one in flight;
\* request k covers the (at most BATCH_SIZE) consecutive waypoints from
\* BATCH_SIZE * (k - 1); the batches partition the list; and the call
\* makes ceil(N / BATCH_SIZE) requests in all, none for an empty list.
C8_Sequential ==
    LET e == elev
        n == Len(e.waypoints)
    IN  /\ Cardinality(e.inFlight) <= 1
        /\ e.pc = "awaiting" =>
              e.inFlight = {e.requests[Len(e.requests)].start}
        /\ e.pc # "awaiting" => e.inFlight = {}
        /\ \A k \in 1..Len(e.requests) :
              /\ e.requests[k].start = BATCH_SIZE * (k - 1)
              /\ e.requests[k].size = Min(BATCH_SIZE, n - e.requests[k].start)
              /\ e.requests[k].size >= 1
        /\ Len(e.requests) <= BatchCount(n)
        /\ e.pc = "returned" => Len(e.requests) = BatchCount(n)
        /\ n = 0 => e.requests = <<>>

C8_Witness ==
    /\ elev.pc = "returned"
    /\ Len(elev.waypoints) = 2 * BATCH_SIZE + 1
    /\ Len(elev.requests) = 3
    /\ elev.requests[3] = [start |-> 2 * BATCH_SIZE, size |-> 1]

(***************************************************************************)
(* The App with a plan in place: plans given by the lengths of their lines.*)
(***************************************************************************)
\* The waypoint at position k of line l of such a plan, and its footprint.
LineWaypoint(l, k, altitude) ==
    [lat |-> 4000 * l + 3, lng |-> 1971 * k + 4, altitude |-> altitude,
     heading |-> IF l % 2 = 1 THEN 90 ELSE 270, gimbalPitch |-> -90,
     speed |-> 10]

PlanLines(lengths, altitude) ==
    [l \in 1..Len(lengths) |->
        [k \in 1..lengths[l] |-> LineWaypoint(l, k, altitude)]]

PlanFootprints(lines) ==
    LET flat == Flat(lines)
    IN  [k \in 1..Len(flat) |->
            FootprintPoly(Pt(flat[k].lng, flat[k].lat), flat[k].heading,
                          20000, 10000)]

\* The line lengths: up to MaxLineLen, the 13 of the filter's example, and
\* 30, two lines of which span a batch boundary.
LineLengths == (1..MaxLineLen) \cup {13, 30}

RECURSIVE LengthLists(_)
LengthLists(n) ==
    IF n = 0 THEN {<<>>}
    ELSE {<<len>> \o rest : len \in LineLengths, rest \in LengthLists(n - 1)}

PlanShapes == UNION {LengthLists(n) : n \in 1..MaxLines}

\* The state handleGeneratePlan's timeout leaves for a plan of the given
\* lines: the canonical data set, the effects pending.
PlanInPlace(lines) ==
    /\ surveyArea = Some(AreaStrip)
    /\ originalWaypoints = lines
    /\ originalFootprints = Some(PlanFootprints(lines))
    /\ waypoints = <<>>
    /\ footprints = NULL
    /\ stats = NULL
    /\ isLoading = FALSE
    /\ isFetchingTerrain = FALSE
    /\ error = NULL
    /\ lastLog = Some(GeneratedEntry(lines))
    /\ pendingEffects = {"filter", "stats"}
    /\ cameraParams = DJI_MINI_4_PRO_CAMERA
    /\ edits = 0
    /\ Quiet

InitFilter ==
    /\ flightParams = DefaultFlightParams
    /\ filterParams \in [enabled : BOOLEAN, keepStart : 0..MaxKeep,
                          keepEnd : 0..MaxKeep]
    /\ terrain = "coast"
    /\ \E shape \in PlanShapes :
          PlanInPlace(PlanLines(shape, flightParams.altitude))

NextFilter ==
    \/ RunEffects
    \/ SetFilterParam

SpecFilter == InitFilter /\ [][NextFilter]_vars

\* The positions (from 1) of a line of the given length that the filter
\* keeps, and the entries of a sequence at a set of positions, in order.
KeptPositions(length, keepStart, keepEnd) ==
    IF length <= keepStart + keepEnd THEN 1..length
    ELSE (1..keepStart) \cup ((length - keepEnd + 1)..length)

EntriesAt(seq, positions) ==
    [j \in 1..Cardinality(positions) |->
        seq[CHOOSE i \in positions :
                Cardinality({m \in positions : m < i}) = j - 1]]

\* The kept waypoints of every line, one line after another.
KeptWaypoints(lines, fp) ==
    Flat([l \in 1..Len(lines) |->
            EntriesAt(lines[l],
                      KeptPositions(Len(lines[l]), fp.keepStart, fp.keepEnd))])

\* C1: with the filter enabled and its effect run, a line of at most
\* keepStart + keepEnd waypoints is in the active list whole, a longer line
\* contributes its first keepStart and then its last keepEnd waypoints, and
\* the active list is the lines' contributions in line order.
C1_FilterKeeps ==
    (filterParams.enabled /\ "filter" \notin pendingEffects
        /\ originalWaypoints # <<>> /\ originalFootprints # NULL) =>
        waypoints = KeptWaypoints(originalWaypoints, filterParams)

\* The example: one line of 13 waypoints, keepStart = keepEnd = 2, leaves the
\* waypoints at indexes 0, 1, 11 and 12.
C1_Witness ==
    /\ filterParams = [enabled |-> TRUE, keepStart |-> 2, keepEnd |-> 2]
    /\ "filter" \notin pendingEffects
    /\ Len(originalWaypoints) = 1
    /\ Len(originalWaypoints[1]) = 13
    /\ waypoints = <<originalWaypoints[1][1], originalWaypoints[1][2],
                     originalWaypoints[1][12], originalWaypoints[1][13]>>

\* C4: a run of the effects, like a change of the filter parameters, leaves
\* the canonical lines and footprints as they were, and the filter effect
\* run with the filter disabled makes the active view the whole flattened
\* plan with the canonical footprints.
C4_CanonicalKept ==
    [][/\ originalWaypoints' = originalWaypoints
       /\ originalFootprints' = originalFootprints
       /\ (~filterParams'.enabled /\ "filter" \in pendingEffects
             /\ "filter" \notin pendingEffects') =>
             /\ waypoints' = Flat(originalWaypoints)
             /\ footprints' = originalFootprints]_vars

\* The filter is off again and the whole plan is back in the view, while
\* the statistics still count the cut view it replaces.
C4_Witness ==
    /\ ~filterParams.enabled
    /\ pendingEffects = {"stats"}
    /\ waypoints = Flat(originalWaypoints)
    /\ footprints = originalFootprints
    /\ stats # NULL
    /\ stats[1].totalWaypoints < Len(waypoints)

\* The canonical data is paired: one canonical footprint for each waypoint
\* of the flattened canonical lines.
CanonicalPaired ==
    /\ originalWaypoints # <<>>
    /\ originalFootprints # NULL
    /\ Len(originalFootprints[1]) = Len(Flat(originalWaypoints))

\* C30: with the canonical data paired and the filter effect run, whatever
\* the filter parameters, the active footprints are as many as the active
\* waypoints, and the k-th of them is the canonical footprint of the k-th
\* active waypoint.
C30_ViewAligned ==
    (CanonicalPaired /\ "filter" \notin pendingEffects) =>
        LET flat == Flat(originalWaypoints)
        IN  /\ footprints # NULL
            /\ Len(footprints[1]) = Len(waypoints)
            /\ \A k \in 1..Len(waypoints) :
                  \E i \in 1..Len(flat) :
                     /\ flat[i] = waypoints[k]
                     /\ originalFootprints[1][i] = footprints[1][k]

\* The filter has cut lines of a plan of several lines: the view is shorter
\* than the plan, and holds a waypoint of a line past the first.
C30_Witness ==
    /\ CanonicalPaired /\ "filter" \notin pendingEffects
    /\ filterParams = [enabled |-> TRUE, keepStart |-> 1, keepEnd |-> 2]
    /\ Len(originalWaypoints) >= 2
    /\ Len(originalWaypoints[1]) > 3
    /\ Len(waypoints) < Len(Flat(originalWaypoints))
    /\ \E k \in 1..Len(waypoints) : waypoints[k] = originalWaypoints[2][1]

(***************************************************************************)
(* The statistics of a plan in place, under filter, speed and camera       *)
(* changes, terrain fetches and the clearing of the plan.                  *)
(***************************************************************************)
\* The waypoint at position k of line l of a plan whose waypoints are two
\* kilometres apart.
WideLineWaypoint(l, k, altitude) ==
    [lat |-> 4000 * l + 3, lng |-> 180007 * k + 4, altitude |-> altitude,
     heading |-> IF l % 2 = 1 THEN 90 ELSE 270, gimbalPitch |-> -90,
     speed |-> 10]

WidePlanLines(lengths, altitude) ==
    [l \in 1..Len(lengths) |->
        [k \in 1..lengths[l] |-> WideLineWaypoint(l, k, altitude)]]

\* The plans: one line of every length, and two lines.
StatsShapes == {<<n>> : n \in 1..MaxLineLen} \cup {<<3, MaxLineLen>>}

StatsPlans ==
    {PlanLines(shape, DefaultFlightParams.altitude) : shape \in StatsShapes}
        \cup {WidePlanLines(shape, DefaultFlightParams.altitude) :
                  shape \in StatsShapes}

InitStats ==
    /\ \E v \in Speeds :
          flightParams = [DefaultFlightParams EXCEPT !.speed = v]
    /\ filterParams = DefaultFilterParams
    /\ terrain = "plain"
    /\ \E lines \in StatsPlans : PlanInPlace(lines)

NextStats ==
    \/ RunEffects
    \/ SetFlightParam
    \/ SetCameraPreset
    \/ SetFilterParam
    \/ ClearPlan
    \/ FetchClick
    \/ FetchRespond

SpecStats == InitStats /\ [][NextStats]_vars

\* C17: once the effects have settled, empty canonical lines or absent
\* canonical footprints leave an empty active waypoint list and absent active
\* footprints, and Stats is absent exactly when the active waypoint list is
\* empty or the canonical lines are empty.
C17_DegenerateInput ==
    Settled =>
        /\ (Len(originalWaypoints) = 0 \/ originalFootprints = NULL) =>
              (waypoints = <<>> /\ footprints = NULL)
        /\ stats = NULL <=> (Len(waypoints) = 0 \/ Len(originalWaypoints) = 0)

\* The effects have settled on canonical lines without footprints, after a
\* terrain fetch wrote the lines back: no active waypoints, no Stats.
C17_Witness ==
    /\ Settled
    /\ Len(originalWaypoints) > 0 /\ originalFootprints = NULL
    /\ waypoints = <<>> /\ footprints = NULL /\ stats = NULL
    /\ lastLog = Some(LogEntry("success",
            "Terrain data fetched and applied successfully."))

\* C18: once the effects have settled, Stats is the statistics of the active
\* waypoints, the canonical lines, the flight speed and the camera as they
\* are now (it was recomputed after their last change); when it is present,
\* photoCount and totalWaypoints are the number of active waypoints and
\* flightLines is the number of canonical lines, whatever the filter keeps.
C18_StatsCounts ==
    Settled =>
        /\ stats = StatsOf(waypoints, originalWaypoints, flightParams.speed,
                           cameraParams)
        /\ stats # NULL =>
              /\ stats[1].photoCount = Len(waypoints)
              /\ stats[1].totalWaypoints = Len(waypoints)
              /\ stats[1].flightLines = Len(originalWaypoints)

\* Stats is present on a filtered view of two lines, after the speed and
\* the camera were changed.
C18_Witness ==
    /\ Settled /\ stats # NULL
    /\ filterParams.enabled
    /\ Len(originalWaypoints) = 2
    /\ Len(waypoints) < Len(Flat(originalWaypoints))
    /\ stats[1].photoCount = Len(waypoints)
    /\ flightParams.speed # DefaultFlightParams.speed
    /\ cameraParams = DJI_MAVIC_3_CAMERA

\* The characters of a string before and after its first colon.
ColonAt(str) == CHOOSE c \in 1..Len(str) :
                    str[c] = ":" /\ \A k \in 1..(c - 1) : str[k] # ":"

\* The number a string of decimal digits stands for.
RECURSIVE NumberOf(_)
NumberOf(str) ==
    IF str = <<>> THEN 0
    ELSE 10 * NumberOf(SubSeq(str, 1, Len(str) - 1))
            + (CHOOSE d \in 0..9 : DigitChar(d) = str[Len(str)])

IsDigits(str) ==
    \A k \in 1..Len(str) : \E d \in 0..9 : DigitChar(d) = str[k]

\* C19: with t = totalDistance / speed, the flight-time string of the
\* present Stats is MM:SS where MM = floor(t / 60) and SS = floor(t mod 60),
\* so 0 <= SS <= 59 and 60 * MM + SS = floor(t); both fields have at least
\* two digits, zeros being added in front; one active waypoint gives 00:00.
C19_FlightTime ==
    (Settled /\ stats # NULL) =>
        LET str    == stats[1].flightTime
            floorT == TotalDistance(waypoints) \div (1000 * flightParams.speed)
            c      == ColonAt(str)
            mm     == SubSeq(str, 1, c - 1)
            ss     == SubSeq(str, c + 1, Len(str))
        IN  /\ Cardinality({k \in 1..Len(str) : str[k] = ":"}) = 1
            /\ IsDigits(mm) /\ IsDigits(ss)
            /\ Len(ss) = 2
            /\ Len(mm) >= 2 /\ (Len(mm) > 2 => mm[1] # "0")
            /\ NumberOf(mm) = floorT \div 60
            /\ NumberOf(ss) = floorT % 60
            /\ NumberOf(ss) \in 0..59
            /\ 60 * NumberOf(mm) + NumberOf(ss) = floorT
            /\ Len(waypoints) = 1 => str = <<"0", "0", ":", "0", "0">>

\* Stats is present with a flight time of whole minutes below ten and
\* seconds below ten, a zero added in front of each.
C19_Witness ==
    /\ Settled /\ stats # NULL
    /\ Len(waypoints) > 1
    /\ Len(stats[1].flightTime) = 5
    /\ stats[1].flightTime[1] = "0" /\ stats[1].flightTime[2] # "0"
    /\ stats[1].flightTime[4] = "0" /\ stats[1].flightTime[5] # "0"

(***************************************************************************)
(* Plan generation on drawn and imported survey areas.                     *)
(***************************************************************************)
\* Three disjoint 30 m x 50 m fields side by side, imported from a
\* shapefile.
AreaTriple ==
    <<Rect(0, 0, 2700, 4500), Rect(4500, 0, 7200, 4500),
      Rect(9000, 0, 11700, 4500)>>

\* A triangle too low for a sweep row to cross it.
AreaApex == <<TriangleDown>>

GenerateAreas == Areas \cup {AreaTriple, AreaApex}

InitGenerate ==
    /\ \E a \in Altitudes, f \in FrontOverlaps :
          flightParams = [DefaultFlightParams EXCEPT !.altitude = a,
                                                     !.frontOverlap = f]
    /\ cameraParams = DJI_MINI_4_PRO_CAMERA
    /\ filterParams = DefaultFilterParams
    /\ \E area \in GenerateAreas : surveyArea = Some(area)
    /\ waypoints = <<>>
    /\ footprints = NULL
    /\ originalWaypoints = <<>>
    /\ originalFootprints = NULL
    /\ isLoading = FALSE
    /\ isFetchingTerrain = FALSE
    /\ error = NULL
    /\ stats = NULL
    /\ lastLog = NULL
    /\ pendingEffects = {}
    /\ edits = 0
    /\ Quiet
    /\ terrain = "plain"

NextGenerate ==
    \/ GenerateClick
    \/ GenerateTimeout
    \/ RunEffects
    \/ SetFlightParam
    \/ SetCameraPreset

SpecGenerate == InitGenerate /\ [][NextGenerate]_vars

\* The step in which handleGeneratePlan's deferred computation runs.
GenerateEnds == planTimer # NULL /\ planTimer' = NULL

\* Some waypoint of the lines lies on the extent of the polygon.
Visited(polygon, lines) ==
    LET box == Bbox(polygon)
    IN  \E k \in 1..Len(Flat(lines)) :
           LET wp == Flat(lines)[k]
           IN  /\ box.minX <= wp.lng /\ wp.lng <= box.maxX
               /\ box.minY <= wp.lat /\ wp.lat <= box.maxY

C20_NormalizationOfTwo ==
    [][(GenerateEnds /\ Len(PolygonFeatures(planTimer[1].surveyArea)) <= 2) =>
          LET call     == planTimer[1]
              polygons == SelectSeq(call.surveyArea,
                              LAMBDA f : f.type \in {"Polygon", "MultiPolygon"})
              swept    == IF Len(polygons) = 1 THEN polygons[1]
                          ELSE Union(polygons)
              plan     == generateFlightPlan(swept, call.flightParams,
                                             call.cameraParams)
          IN  IF Len(polygons) = 0
              THEN /\ originalWaypoints' = <<>>
                   /\ lastLog' = Some(LogEntry("error",
                          "Survey area contains no valid polygon features."))
              ELSE IF plan.ok
              THEN /\ originalWaypoints' = plan.waypoints
                   /\ originalFootprints' = Some(plan.footprints)
                   /\ \A k \in 1..Len(polygons) :
                         Visited(polygons[k], originalWaypoints')
              ELSE /\ originalWaypoints' = <<>>
                   /\ lastLog' = Some(LogEntry("error", plan.error))]_vars

\* C21: a plan that exists once the effects have settled and no planning is
\* pending is the plan of the current parameters: the canonical lines and
\* footprints are those generated from the current FlightParams and
\* CameraParams, and every waypoint has their speed, gimbalPitch and
\* altitude.
C21_PlanFollowsParams ==
    (Settled /\ planTimer = NULL /\ Len(originalWaypoints) > 0) =>
        /\ \A k \in 1..Len(Flat(originalWaypoints)) :
              LET wp == Flat(originalWaypoints)[k]
              IN  /\ wp.speed = flightParams.speed
                  /\ wp.gimbalPitch = flightParams.gimbalPitch
                  /\ wp.altitude = flightParams.altitude
        /\ \E plan \in PlansOf(surveyArea[1], flightParams, cameraParams) :
              /\ plan.ok
              /\ originalWaypoints = plan.waypoints
              /\ originalFootprints = Some(plan.footprints)

\* The planning of the oldest pending timer fails: an overlap is 100% or
\* more, or the sweep gives no waypoint.
PlanningFails ==
    LET call == Head(planTimer)
    IN  \/ call.flightParams.frontOverlap >= 100
        \/ call.flightParams.sideOverlap >= 100
        \/ \A plan \in PlansOf(call.surveyArea, call.flightParams,
                                call.cameraParams) :
               ~plan.ok /\ plan.error = NoWaypointsMessage

NextSerial ==
    \/ GenerateClick
    \/ GenerateTimeout
    \/ ImportStart
    \/ ImportSettle
    \/ EditSurveyArea
    \/ ClearPlan
    \/ RunEffects

SpecSerial == InitGenerate /\ [][NextSerial]_vars

\* C22: at most one planning computation is pending; while one is pending
\* (from handleGeneratePlan's setIsLoading(true) to the end of its deferred
\* computation) isLoading is set, no import is running, and neither Generate
\* nor Import can be started.
C22_PlanningSerialized ==
    /\ Len(planTimer) <= 1
    /\ planTimer # <<>> =>
          /\ isLoading
          /\ importCall = NULL
          /\ ~ENABLED GenerateClick
          /\ ~ENABLED ImportStart

\* A planning computation is pending on a survey area that holds an
\* imported polygon.
C22_Witness ==
    /\ Len(planTimer) = 1 /\ isLoading
    /\ surveyArea # NULL
    /\ \E k \in 1..Len(surveyArea[1]) :
          surveyArea[1][k] = Rect(9000, 0, 11700, 4500)
    /\ edits < MaxEdits

\* C26: in every state of the App, whatever the interleaving of Generate,
\* terrain fetches and their completion, Clear Everything, edits of the
\* survey area and imports, the canonical footprints are absent exactly when
\* the canonical lines are empty, and otherwise there is one footprint for
\* each waypoint of the flattened lines.
C26_CanonicalPaired ==
    /\ (originalFootprints = NULL) <=> (originalWaypoints = <<>>)
    /\ originalFootprints # NULL =>
          Len(originalFootprints[1]) = Len(Flat(originalWaypoints))

\* C27: when a terrain fetch completes after the canonical lines were
\* cleared or regenerated while it was in flight, so that they are no longer
\* the lines the fetch was started on, the completion leaves the canonical
\* lines as the clear or the regeneration set them.
C27_FetchOnItsPlan ==
    [][(/\ fetchCall # NULL /\ fetchCall' = NULL
        /\ originalWaypoints # fetchCall[1].originalWaypoints) =>
            originalWaypoints' = originalWaypoints]_vars

(***************************************************************************)
(* Terrain fetches on a plan in place.                                     *)
(***************************************************************************)
InitFetch ==
    /\ \E a \in Altitudes :
          flightParams = [DefaultFlightParams EXCEPT !.altitude = a,
                                                     !.altitudeMode = "agl"]
    /\ filterParams = DefaultFilterParams
    /\ terrain \in Terrains
    /\ \E shape \in PlanShapes :
          PlanInPlace(PlanLines(shape, flightParams.altitude))

NextFetch ==
    \/ RunEffects
    \/ FetchClick
    \/ FetchRespond

SpecFetch == InitFetch /\ [][NextFetch]_vars

\* The number of waypoints in the lines before line l.
FlatOffset(lines, l) == Len(Flat(Slice(lines, 0, l - 1)))

\* x rounded to two decimals of a metre: the multiple of 10 mm nearest to x.
IsRound2Of(a, x) == a % 10 = 0 /\ Abs(a - x) <= 5

\* new is old with the k-th sample applied to the k-th waypoint of the
\* flattened lines.
SamplesApplied(old, new, samples, altitude) ==
    /\ Len(new) = Len(old)
    /\ \A l \in 1..Len(old) :
          /\ Len(new[l]) = Len(old[l])
          /\ \A k \in 1..Len(old[l]) :
                LET sample == samples[FlatOffset(old, l) + k]
                IN  IF sample = NULL THEN new[l][k] = old[l][k]
                    ELSE /\ IsRound2Of(new[l][k].altitude, sample[1] + altitude)
                         /\ new[l][k] =
                               [old[l][k] EXCEPT !.altitude = new[l][k].altitude]

\* The step in which a terrain fetch completes.
FetchCompletes == fetchCall # NULL /\ fetchCall' = NULL

\* C2: when a terrain fetch completes, the k-th sample has been applied to
\* the k-th waypoint of the flattened canonical lines: a numeric sample e
\* makes the altitude e + FlightParams.altitude rounded to two decimals and
\* changes nothing else, an unknown sample leaves the waypoint as it was,
\* and the lines keep their lengths and order.
C2_ElevationMerge ==
    [][FetchCompletes =>
          SamplesApplied(originalWaypoints, originalWaypoints', elev'.result,
                         flightParams.altitude)]_vars

\* A fetch has completed on a plan of several lines: a waypoint past the
\* first line is corrected by a sample that needed rounding, another keeps
\* the altitude of the plan since its sample was unknown.
C2_Witness ==
    /\ fetchCall = NULL /\ elev.pc = "returned"
    /\ Len(originalWaypoints) >= 2
    /\ Len(elev.result) = Len(Flat(originalWaypoints))
    /\ \E k \in (Len(originalWaypoints[1]) + 1)..Len(elev.result) :
          /\ elev.result[k] # NULL
          /\ (elev.result[k][1] + flightParams.altitude) % 10 # 0
          /\ Flat(originalWaypoints)[k].altitude # flightParams.altitude
    /\ \E k \in 1..Len(elev.result) :
          /\ elev.result[k] = NULL
          /\ Flat(originalWaypoints)[k].altitude = flightParams.altitude

\* new is old with nothing but altitudes changed.
AltitudeOnly(old, new) ==
    /\ Len(new) = Len(old)
    /\ \A l \in 1..Len(old) :
          /\ Len(new[l]) = Len(old[l])
          /\ \A k \in 1..Len(old[l]) :
                /\ new[l][k].lat = old[l][k].lat
                /\ new[l][k].lng = old[l][k].lng
                /\ new[l][k].heading = old[l][k].heading
                /\ new[l][k].gimbalPitch = old[l][k].gimbalPitch
                /\ new[l][k].speed = old[l][k].speed

\* C24: the merge of a completed terrain fetch gives the lines it was given,
\* which are the canonical lines of the plan in place, with nothing but
\* altitudes changed: every waypoint keeps its lat, lng, heading, gimbalPitch
\* and speed, the lines keep their number, lengths and order, and the
\* canonical footprints stay as they were.
C24_MergeFrame ==
    [][FetchCompletes /\ ~elev'.rejected =>
          /\ AltitudeOnly(fetchCall[1].originalWaypoints, originalWaypoints')
          /\ AltitudeOnly(originalWaypoints, originalWaypoints')
          /\ originalFootprints' = originalFootprints]_vars

\* A fetch has completed on a plan of several lines of different lengths and
\* corrected an altitude; the footprints are those of the plan.
C24_Witness ==
    /\ fetchCall = NULL /\ elev.pc = "returned"
    /\ Len(originalWaypoints) >= 2
    /\ Len(originalWaypoints[1]) # Len(originalWaypoints[2])
    /\ \E k \in 1..Len(Flat(originalWaypoints)) :
          Flat(originalWaypoints)[k].altitude # flightParams.altitude
    /\ \E k \in 1..Len(Flat(originalWaypoints)) :
          Flat(originalWaypoints)[k].heading # 0
    /\ originalFootprints = Some(PlanFootprints(originalWaypoints))

\* A terrain fetch has completed and its samples are the latest.
FetchDone ==
    /\ fetchCall = NULL /\ elev.pc = "returned"
    /\ Len(elev.result) = Len(Flat(originalWaypoints))

\* C16: once a terrain fetch has completed, whatever fetches went before it
\* on the plan, every waypoint whose sample in this fetch was unknown has the
\* altitude it was planned with (FlightParams.altitude), and every other
\* waypoint has its sample plus that altitude, rounded to two decimals.
C16_UnknownKeepsPlanned ==
    FetchDone =>
        \A k \in 1..Len(elev.result) :
           LET wp == Flat(originalWaypoints)[k]
           IN  IF elev.result[k] = NULL
               THEN wp.altitude = flightParams.altitude
               ELSE IsRound2Of(wp.altitude,
                               elev.result[k][1] + flightParams.altitude)

\* C28: the merge is idempotent: once a terrain fetch has completed, the
\* merge applied again to the canonical lines with the same samples and the
\* same FlightParams.altitude gives the same lines, and a waypoint with a
\* numeric sample has that sample plus FlightParams.altitude, whatever
\* earlier fetches had corrected it to.
C28_MergeIdempotent ==
    FetchDone =>
        /\ MergeElevations(originalWaypoints, elev.result,
                           flightParams.altitude) = originalWaypoints
        /\ \A k \in 1..Len(elev.result) :
              elev.result[k] # NULL =>
                 Flat(originalWaypoints)[k].altitude =
                    ToFixed2(elev.result[k][1] + flightParams.altitude)

\* A second fetch has completed on lines an earlier fetch had corrected: a
\* waypoint unknown to this fetch has the earlier correction, another has
\* this fetch's sample.
C28_Witness ==
    /\ FetchDone
    /\ \E k \in 1..Len(elev.result) :
          /\ elev.result[k] = NULL
          /\ Flat(originalWaypoints)[k].altitude # flightParams.altitude
    /\ \E k \in 1..Len(elev.result) :
          /\ elev.result[k] # NULL
          /\ elev.result[k][1] # 0

\* C6: whatever requests fail, getElevations returns its array and does not
\* reject; handleFetchTerrainData then applies the samples to the canonical
\* lines, logs success and not an error, and ends the fetch; the failures
\* show only in the count of unknown elevations.
C6_NeverAborts ==
    [][/\ ~elev'.rejected
       /\ FetchCompletes =>
             /\ elev'.pc = "returned"
             /\ SamplesApplied(originalWaypoints, originalWaypoints',
                               elev'.result, flightParams.altitude)
             /\ lastLog' = Some(LogEntry("success",
                     "Terrain data fetched and applied successfully."))
             /\ error' = NULL
             /\ ~isFetchingTerrain'
             /\ elev'.warned =
                   Cardinality({k \in 1..Len(elev'.result) : elev'.result[k] = NULL})
             /\ \A b \in elev'.failed :
                   \A k \in (b + 1)..Min(b + BATCH_SIZE, Len(elev'.result)) :
                      elev'.result[k] = NULL]_vars

\* A fetch has completed with every one of its two requests failed.
C6_Witness ==
    /\ fetchCall = NULL /\ elev.pc = "returned"
    /\ Len(elev.requests) = 2
    /\ elev.failed = {0, BATCH_SIZE}
    /\ elev.warned = Len(elev.waypoints)
    /\ ~isFetchingTerrain
    /\ lastLog = Some(LogEntry("success",
            "Terrain data fetched and applied successfully."))

(***************************************************************************)
(* Generation, terrain fetches and filter changes on a drawn survey area.  *)
(***************************************************************************)
\* The App after an area was drawn and the parameters were set, in AGL
\* mode.
InitView ==
    /\ \E a \in Altitudes, f \in FrontOverlaps :
          flightParams = [DefaultFlightParams EXCEPT !.altitude = a,
                                                     !.frontOverlap = f,
                                                     !.altitudeMode = "agl"]
    /\ cameraParams = DJI_MINI_4_PRO_CAMERA
    /\ filterParams = DefaultFilterParams
    /\ \E area \in Areas : surveyArea = Some(area)
    /\ waypoints = <<>>
    /\ footprints = NULL
    /\ originalWaypoints = <<>>
    /\ originalFootprints = NULL
    /\ isLoading = FALSE
    /\ isFetchingTerrain = FALSE
    /\ error = NULL
    /\ stats = NULL
    /\ lastLog = NULL
    /\ pendingEffects = {}
    /\ edits = 0
    /\ Quiet
    /\ terrain \in {"coast", "hills"}

NextView ==
    \/ GenerateClick
    \/ GenerateTimeout
    \/ FetchClick
    \/ FetchRespond
    \/ SetFilterParam
    \/ RunEffects

SpecView == InitView /\ [][NextView]_vars

(***************************************************************************)
(* The busy flags.  The timer's callback and the answers to the requests   *)
(* are tasks of the event loop: each is run in the end, however often a    *)
(* render with effects still to run comes in between; the effects of a     *)
(* render run before the next task.                                        *)
(***************************************************************************)
\* A 10 m x 10 m patch: a plan of one short line.
AreaPatch == <<Rect(0, 0, 900, 900)>>

\* The App after a small area was drawn, in AGL mode.
InitBusy ==
    /\ \E f \in FrontOverlaps :
          flightParams = [DefaultFlightParams EXCEPT !.frontOverlap = f,
                                                     !.altitudeMode = "agl"]
    /\ cameraParams = DJI_MINI_4_PRO_CAMERA
    /\ filterParams = DefaultFilterParams
    /\ \E area \in {AreaPatch, AreaApex} : surveyArea = Some(area)
    /\ waypoints = <<>>
    /\ footprints = NULL
    /\ originalWaypoints = <<>>
    /\ originalFootprints = NULL
    /\ isLoading = FALSE
    /\ isFetchingTerrain = FALSE
    /\ error = NULL
    /\ stats = NULL
    /\ lastLog = NULL
    /\ pendingEffects = {}
    /\ edits = 0
    /\ Quiet
    /\ terrain \in {"coast", "hills"}

NextBusy ==
    \/ GenerateClick
    \/ GenerateTimeout
    \/ FetchClick
    \/ FetchRespond
    \/ ClearPlan
    \/ RunEffects

\* The step of the oldest pending timer's callback, as the timer queue shows
\* it: GenerateTimeout is the only action that takes a timer off the queue.
TimerRuns == Settled /\ planTimer # <<>> /\ planTimer' = Tail(planTimer)

SpecBusy ==
    /\ InitBusy
    /\ [][NextBusy]_vars
    /\ WF_vars(RunEffects)
    /\ SF_planTimer(TimerRuns)
    /\ SF_vars(FetchRespond)

\* C29: after every Generate isLoading becomes false again; after every
\* start of a terrain fetch, every request being answered in the end,
\* isFetchingTerrain becomes false again; and while isFetchingTerrain is set
\* no terrain fetch can be started.
C29_BusyFlagsClear ==
    /\ isLoading ~> ~isLoading
    /\ isFetchingTerrain ~> ~isFetchingTerrain
    /\ [](isFetchingTerrain => ~ENABLED FetchClick)

\* A generation is pending while a terrain fetch is in flight.
C29_Witness ==
    /\ isLoading /\ planTimer # <<>>
    /\ isFetchingTerrain /\ fetchCall # NULL
    /\ elev.inFlight # {}

\* The canonical footprints of the kept waypoints, one line after another.
KeptFootprints(lines, features, fp) ==
    Flat([l \in 1..Len(lines) |->
            EntriesAt([k \in 1..Len(lines[l]) |->
                          features[FlatOffset(lines, l) + k]],
                      KeptPositions(Len(lines[l]), fp.keepStart, fp.keepEnd))])

\* C3: once the effects have settled the active view is the filter applied
\* to the canonical data of the moment: the flattened canonical lines and
\* the canonical footprints with the filter disabled, the kept waypoints of
\* each line and their footprints with it enabled.  So after a terrain
\* fetch every waypoint of the active view is its canonical counterpart,
\* corrected altitude included, whenever the filter was enabled.
C3_ViewOfCanonical ==
    Settled =>
        IF ~filterParams.enabled
        THEN /\ waypoints = Flat(originalWaypoints)
             /\ footprints = originalFootprints
        ELSE /\ waypoints = KeptWaypoints(originalWaypoints, filterParams)
             /\ originalFootprints = NULL => footprints = NULL
             /\ originalFootprints # NULL =>
                   footprints = Some(KeptFootprints(originalWaypoints,
                                        originalFootprints[1], filterParams))

\* A fetch has completed and the effects have settled with the filter
\* enabled: the view is shorter than the plan and shows a corrected
\* altitude.
C3_Witness ==
    /\ Settled
    /\ filterParams.enabled
    /\ fetchCall = NULL /\ elev.pc = "returned"
    /\ Len(waypoints) > 0
    /\ Len(waypoints) < Len(Flat(originalWaypoints))
    /\ \E k \in 1..Len(waypoints) : waypoints[k].altitude # flightParams.altitude

====
